---- MODULE Spec2Model ----
(***************************************************************************)
(* A model of the LUT generator: the colour pipeline and the .cube         *)
(* serializer of src/src/lib/lut-generator.ts, the free-text parameter     *)
(* extractor of the same file and the analysis-to-parameter mapping of     *)
(* src/src/lib/image-analysis.ts.                                          *)
(*                                                                         *)
(* Numbers.  A JavaScript number is an IEEE-754 binary float.  The model   *)
(* keeps the format and shortens it: a number is an integer count of       *)
(* units of 2^-FracBits that has at most MantBits significant bits, or the *)
(* value NaN.  Every arithmetic operation computes the exact result and    *)
(* rounds it to the nearest such number, ties to even, as the hardware     *)
(* does; a decimal literal of the source is the nearest number to it.      *)
(***************************************************************************)
EXTENDS Integers, Sequences, FiniteSets, TLC

\* ------------------------------------------------------------------ numbers

\* Significant bits of a number (53 in the source's doubles).
MantBits == 8
\* Binary places below the point; smaller magnitudes are not representable.
FracBits == 12

Scale == 2^FracBits
\* 1.0 and 0.0
One == Scale
Zero == 0
\* The not-a-number value (0/0, parseFloat of a token that is no number).
NaN == 0 - 2^30

IsNaN(x) == x = NaN

\* F applied to the value of v, with v computed first: the order in which
\* the source computes a local and then uses it.
Then(v, F(_)) == CHOOSE y \in {F(x) : x \in {v}} : TRUE

Abs(x) == IF x < 0 THEN 0 - x ELSE x

\* The spacing of the numbers at magnitude m: 1 unit up to MantBits bits,
\* doubling with every further bit.
RECURSIVE Quantum(_)
Quantum(m) == IF m < 2^MantBits THEN 1 ELSE 2 * Quantum(m \div 2)

\* f + r/d (0 <= r < d) rounded to an integer, ties to even.
RoundHalfEven(f, r, d) ==
  IF 2 * r < d THEN f
  ELSE IF 2 * r > d THEN f + 1
  ELSE IF f % 2 = 0 THEN f ELSE f + 1

\* a/b units rounded to a multiple of the spacing g.
RoundTo(a, b, g) == RoundHalfEven(a \div (b * g), a % (b * g), b * g) * g

\* The number nearest to a/b units (a >= 0, b > 0), ties to even.
RoundPos(a, b) == RoundTo(a, b, Quantum(a \div b))

\* The number nearest to a/b units, for b > 0 and either sign of a.
RoundQ(a, b) == IF a < 0 THEN 0 - RoundPos(0 - a, b) ELSE RoundPos(a, b)

\* The decimal literal a/b of the source, as the nearest number.
RECURSIVE Lit(_, _)
Lit(a, b) ==
  IF a % 2 = 0 /\ b % 2 = 0 /\ a # 0 THEN Lit(a \div 2, b \div 2)
  ELSE RoundQ(a * Scale, b)

\* An integer of the source (a loop index, a byte, a grid size) as a number.
FromInt(n) == RoundQ(n * Scale, 1)

\* x + y and x - y
FAdd(x, y) == IF IsNaN(x) \/ IsNaN(y) THEN NaN ELSE RoundQ(x + y, 1)
FSub(x, y) == IF IsNaN(x) \/ IsNaN(y) THEN NaN ELSE RoundQ(x - y, 1)

\* x * y: the exact product is x * y / Scale units; factors of two are
\* taken out of the operands first, so that the integers stay small.
RECURSIVE MulQ(_, _, _)
MulQ(x, y, s) ==
  IF s > 1 /\ x % 2 = 0 /\ x # 0 THEN MulQ(x \div 2, y, s \div 2)
  ELSE IF s > 1 /\ y % 2 = 0 /\ y # 0 THEN MulQ(x, y \div 2, s \div 2)
  ELSE RoundQ(x * y, s)

FMul(x, y) == IF IsNaN(x) \/ IsNaN(y) THEN NaN ELSE MulQ(x, y, Scale)

\* x / y: 0/0 is NaN; the program never divides a non-zero number by zero.
RECURSIVE DivQ(_, _)
DivQ(x, y) ==
  IF x % 2 = 0 /\ y % 2 = 0 /\ x # 0 THEN DivQ(x \div 2, y \div 2)
  ELSE IF y < 0 THEN RoundQ((0 - x) * Scale, 0 - y)
  ELSE RoundQ(x * Scale, y)

FDiv(x, y) ==
  IF IsNaN(x) \/ IsNaN(y) \/ y = 0 THEN NaN ELSE DivQ(x, y)

\* The comparisons of the source: false when an operand is NaN.
FLt(x, y) == ~IsNaN(x) /\ ~IsNaN(y) /\ x < y
FGt(x, y) == ~IsNaN(x) /\ ~IsNaN(y) /\ x > y

\* Math.max and Math.min: NaN when an operand is NaN.
MathMax(x, y) == IF IsNaN(x) \/ IsNaN(y) THEN NaN ELSE IF x > y THEN x ELSE y
MathMin(x, y) == IF IsNaN(x) \/ IsNaN(y) THEN NaN ELSE IF x < y THEN x ELSE y

\* Math.pow(x, p) for 0 <= x <= 1 and p > 0, the only use the program makes
\* of it.  pow(x, 1) is x and pow(0, p) is 0, exactly, as IEEE-754 requires;
\* otherwise x^p is the product of x^floor(p) and of the roots x^(1/2),
\* x^(1/4), ... that the binary places of p select, computed with two more
\* binary places than a number holds and then rounded to a number.
PowUnit == 4 * Scale

RECURSIVE Bisect(_, _, _)
Bisect(n, lo, hi) ==
  IF hi - lo <= 1 THEN lo
  ELSE LET mid == (lo + hi) \div 2
       IN IF mid * mid <= n THEN Bisect(n, mid, hi) ELSE Bisect(n, lo, mid)

SqrtW(a) == Bisect(a * PowUnit, 0, PowUnit + 1)
MulW(a, b) == (a * b + PowUnit \div 2) \div PowUnit

RECURSIVE PowInt(_, _)
PowInt(a, n) == IF n = 0 THEN PowUnit ELSE MulW(a, PowInt(a, n - 1))

RECURSIVE PowBits(_, _, _, _)
PowBits(base, fp, half, acc) ==
  IF fp = 0 THEN acc
  ELSE Then(SqrtW(base),
            LAMBDA r: IF fp >= half
                      THEN Then(MulW(acc, r),
                                LAMBDA a: PowBits(r, fp - half, half \div 2, a))
                      ELSE PowBits(r, fp, half \div 2, acc))

PowW(a, p) == PowBits(a, p % Scale, Scale \div 2, PowInt(a, p \div Scale))

FPow(x, p) ==
  IF IsNaN(x) \/ IsNaN(p) THEN NaN
  ELSE IF p = One THEN x
  ELSE IF x = 0 THEN 0
  ELSE Then(PowW(x * (PowUnit \div Scale), p),
            LAMBDA w: RoundQ(w, PowUnit \div Scale))

\* ----------------------------------------------------------------- pipeline

Half == Lit(5, 10)

RGB(r, g, b) == [r |-> r, g |-> g, b |-> b]

defaultParams ==
  [contrast |-> Zero, saturation |-> Zero, temperature |-> Zero, tint |-> Zero,
   shadows |-> Zero, highlights |-> Zero,
   lift |-> RGB(Zero, Zero, Zero), gamma |-> RGB(Zero, Zero, Zero),
   gain |-> RGB(Zero, Zero, Zero)]

clamp(value) == MathMax(Zero, MathMin(One, value))

\* The denominator without the 0.99 that keeps it away from 0.
contrastDenominatorPlain(contrast) == FSub(One, contrast)

\* 1 - contrast * 0.99, and the factor of applyContrast.
contrastDenominator(contrast) == FSub(One, FMul(contrast, Lit(99, 100)))
\* Mutant of contrastFactor: 1 - contrast in the numerator.
contrastFactorMirrored(contrast) ==
  FDiv(FSub(One, contrast), contrastDenominator(contrast))
contrastFactor(contrast) == FDiv(FAdd(One, contrast), contrastDenominator(contrast))

applyContrast(value, contrast) ==
  Then(contrastFactor(contrast),
       LAMBDA factor: clamp(FAdd(FMul(FSub(value, Half), factor), Half)))

\* Mutant of Luma: the Rec. 709 weights in place of the Rec. 601 ones.
Luma709(r, g, b) ==
  FAdd(FAdd(FMul(Lit(2126, 10000), r), FMul(Lit(7152, 10000), g)), FMul(Lit(722, 10000), b))

\* 0.299 * r + 0.587 * g + 0.114 * b
Luma(r, g, b) ==
  FAdd(FAdd(FMul(Lit(299, 1000), r), FMul(Lit(587, 1000), g)), FMul(Lit(114, 1000), b))

\* The returned triple of applySaturation, given its two locals.
satMix(r, g, b, luminance, factor) ==
  RGB(clamp(FAdd(luminance, FMul(FSub(r, luminance), factor))),
      clamp(FAdd(luminance, FMul(FSub(g, luminance), factor))),
      clamp(FAdd(luminance, FMul(FSub(b, luminance), factor))))

\* Mutants of applySaturation: the factor without its 1; no clamp on return.
applySaturationNoOne(r, g, b, saturation) ==
  Then(Luma(r, g, b), LAMBDA luminance: satMix(r, g, b, luminance, saturation))
applySaturationNoClamp(r, g, b, saturation) ==
  Then(Luma(r, g, b),
       LAMBDA luminance:
         RGB(FAdd(luminance, FMul(FSub(r, luminance), FAdd(One, saturation))),
             FAdd(luminance, FMul(FSub(g, luminance), FAdd(One, saturation))),
             FAdd(luminance, FMul(FSub(b, luminance), FAdd(One, saturation)))))

applySaturation(r, g, b, saturation) ==
  Then(Luma(r, g, b),
       LAMBDA luminance: satMix(r, g, b, luminance, FAdd(One, saturation)))

\* applyTemperature's triple with the tint factor taken from red and blue too.
tempShiftAllTinted(r, g, b, tempFactor, tintFactor) ==
  RGB(clamp(FSub(FAdd(r, tempFactor), tintFactor)), clamp(FSub(g, tintFactor)),
      clamp(FSub(FSub(b, tempFactor), tintFactor)))

\* The returned triple of applyTemperature, given its two locals.
tempShift(r, g, b, tempFactor, tintFactor) ==
  RGB(clamp(FAdd(r, tempFactor)), clamp(FSub(g, tintFactor)),
      clamp(FSub(b, tempFactor)))

applyTemperature(r, g, b, temp, tint) ==
  tempShift(r, g, b, FMul(temp, Lit(1, 10)), FMul(tint, Lit(5, 100)))

liftScale == Lit(1, 10)
gammaScale == Lit(2, 10)
gainScale == Lit(2, 10)

\* applyChannel of applyLiftGammaGain: the lift, then the gamma, then the
\* gain and the clamp.
lggLift(value, liftVal) ==
  FAdd(value, FMul(FMul(liftVal, liftScale), FSub(One, value)))
lggGamma(result, gammaVal) ==
  Then(FDiv(One, FAdd(One, FMul(gammaVal, gammaScale))),
       LAMBDA gammaPower: FPow(MathMax(Zero, result), gammaPower))
lggGain(result, gainVal) == clamp(FMul(result, FAdd(One, FMul(gainVal, gainScale))))

lggChannel(value, liftVal, gammaVal, gainVal) ==
  Then(Then(lggLift(value, liftVal), LAMBDA result: lggGamma(result, gammaVal)),
       LAMBDA result: lggGain(result, gainVal))

applyLiftGammaGain(r, g, b, lift, gamma, gain) ==
  RGB(lggChannel(r, lift.r, gamma.r, gain.r),
      lggChannel(g, lift.g, gamma.g, gain.g),
      lggChannel(b, lift.b, gamma.b, gain.b))

\* The shadows step with the mask 1 - value in place of 1 - value / 0.5.
shadowsStepFullMask(value, shadows) ==
  IF FLt(value, Half) /\ shadows # Zero
  THEN LET shadowMask == FSub(One, value)
       IN clamp(FAdd(value, FMul(FMul(shadows, Lit(15, 100)), shadowMask)))
  ELSE value

\* Mutant of shadowsStep: the adjustment without the shadow mask.
shadowsStepUnmasked(value, shadows) ==
  IF FLt(value, Half) /\ shadows # Zero
  THEN clamp(FAdd(value, FMul(shadows, Lit(15, 100))))
  ELSE value

shadowsStep(value, shadows) ==
  IF FLt(value, Half) /\ shadows # Zero
  THEN LET shadowMask == FSub(One, FDiv(value, Half))
       IN clamp(FAdd(value, FMul(FMul(shadows, Lit(15, 100)), shadowMask)))
  ELSE value

highlightsStep(value, highlights) ==
  IF FGt(value, Half) /\ highlights # Zero
  THEN LET highlightMask == FDiv(FSub(value, Half), Half)
       IN clamp(FAdd(value, FMul(FMul(highlights, Lit(15, 100)), highlightMask)))
  ELSE value

shChannel(value, shadows, highlights) ==
  Then(shadowsStep(value, shadows), LAMBDA v: highlightsStep(v, highlights))

applyShadowsHighlights(r, g, b, shadows, highlights) ==
  RGB(shChannel(r, shadows, highlights), shChannel(g, shadows, highlights),
      shChannel(b, shadows, highlights))

limitedLow == Lit(627, 10000)
limitedHigh == Lit(9216, 10000)

limitedToFull(value) ==
  Then(FDiv(FSub(value, limitedLow), FSub(limitedHigh, limitedLow)), clamp)

\* Mutant of fullToLimited: the range scaled but not shifted.
fullToLimitedUnshifted(value) ==
  Then(FMul(value, FSub(limitedHigh, limitedLow)), clamp)

fullToLimited(value) ==
  Then(FAdd(FMul(value, FSub(limitedHigh, limitedLow)), limitedLow), clamp)

hevcGamma == Lit(196, 100)
standardGamma == Lit(22, 10)

applyHEVCGammaCompensation(value) ==
  Then(FPow(MathMax(Zero, value), hevcGamma),
       LAMBDA linear: FPow(linear, FDiv(One, standardGamma)))

\* Mutant of applyInverseHEVCGammaCompensation: the forward exponents again.
applyInverseHEVCGammaSame(value) ==
  Then(FPow(MathMax(Zero, value), hevcGamma),
       LAMBDA linear: FPow(linear, FDiv(One, standardGamma)))

applyInverseHEVCGammaCompensation(value) ==
  Then(FPow(MathMax(Zero, value), standardGamma),
       LAMBDA linear: FPow(linear, FDiv(One, hevcGamma)))

\* The five stages of transformColor, each on the triple c the stage before
\* it returned.
stage1(c, params) ==
  applyLiftGammaGain(c.r, c.g, c.b, params.lift, params.gamma, params.gain)
stage2(c, params) ==
  applyShadowsHighlights(c.r, c.g, c.b, params.shadows, params.highlights)
stage3(c, params) ==
  applyTemperature(c.r, c.g, c.b, params.temperature, params.tint)
stage4(c, params) ==
  RGB(applyContrast(c.r, params.contrast), applyContrast(c.g, params.contrast),
      applyContrast(c.b, params.contrast))
stage5(c, params) == applySaturation(c.r, c.g, c.b, params.saturation)

\* The pipeline with the saturation stage run before the contrast stage.
transformColorSaturationFirst(rIn, gIn, bIn, params) ==
  Then(Then(Then(Then(stage1(RGB(rIn, gIn, bIn), params),
                      LAMBDA c: stage2(c, params)),
                 LAMBDA c: stage3(c, params)),
            LAMBDA c: stage5(c, params)),
       LAMBDA c: stage4(c, params))

transformColor(rIn, gIn, bIn, params) ==
  Then(Then(Then(Then(stage1(RGB(rIn, gIn, bIn), params),
                      LAMBDA c: stage2(c, params)),
                 LAMBDA c: stage3(c, params)),
            LAMBDA c: stage4(c, params)),
       LAMBDA c: stage5(c, params))

\* Steps 1-2 and 4-5 of transformColorHEVC, on a triple.
hevcIn(c) ==
  RGB(applyHEVCGammaCompensation(limitedToFull(c.r)),
      applyHEVCGammaCompensation(limitedToFull(c.g)),
      applyHEVCGammaCompensation(limitedToFull(c.b)))
hevcOut(c) ==
  RGB(fullToLimited(applyInverseHEVCGammaCompensation(c.r)),
      fullToLimited(applyInverseHEVCGammaCompensation(c.g)),
      fullToLimited(applyInverseHEVCGammaCompensation(c.b)))
gradeTriple(c, params) == transformColor(c.r, c.g, c.b, params)

transformColorHEVC(rIn, gIn, bIn, params) ==
  Then(Then(hevcIn(RGB(rIn, gIn, bIn)), LAMBDA c: gradeTriple(c, params)), hevcOut)

\* ------------------------------------------------------------------ presets

\* n hundredths, the form of every literal of the preset table.
Pct(n) == Lit(n, 100)

presets ==
  [cinematic_orange_teal |->
     [defaultParams EXCEPT !.contrast = Pct(15), !.saturation = Pct(10),
        !.temperature = Pct(20), !.tint = Pct(5), !.shadows = Pct(-10),
        !.highlights = Pct(10), !.lift = RGB(Zero, Pct(-10), Pct(10)),
        !.gamma = RGB(Pct(5), Zero, Pct(-5)),
        !.gain = RGB(Pct(10), Pct(5), Pct(-10))],
   vintage_film |->
     [defaultParams EXCEPT !.contrast = Pct(10), !.saturation = Pct(-15),
        !.temperature = Pct(10), !.shadows = Pct(10), !.highlights = Pct(-10),
        !.lift = RGB(Pct(10), Pct(5), Zero), !.gamma = RGB(Zero, Zero, Zero),
        !.gain = RGB(Pct(-5), Pct(-5), Pct(-10))],
   black_and_white |->
     [defaultParams EXCEPT !.saturation = Pct(-100), !.contrast = Pct(20)],
   high_contrast |->
     [defaultParams EXCEPT !.contrast = Pct(35), !.saturation = Pct(10),
        !.shadows = Pct(-15), !.highlights = Pct(15)],
   muted_pastel |->
     [defaultParams EXCEPT !.saturation = Pct(-25), !.contrast = Pct(-10),
        !.highlights = Pct(10), !.lift = RGB(Pct(5), Pct(5), Pct(8))],
   warm_golden |->
     [defaultParams EXCEPT !.temperature = Pct(30), !.saturation = Pct(10),
        !.contrast = Pct(5), !.gain = RGB(Pct(10), Pct(5), Pct(-10))],
   cool_blue |->
     [defaultParams EXCEPT !.temperature = Pct(-30), !.saturation = Pct(5),
        !.tint = Pct(-10), !.gain = RGB(Pct(-10), Zero, Pct(15))],
   vibrant_pop |->
     [defaultParams EXCEPT !.saturation = Pct(40), !.contrast = Pct(15),
        !.highlights = Pct(10)]]

PresetNames == DOMAIN presets

\* ------------------------------------------------------------------- inputs

\* The two ends of every control's range [-1, 1].
Extremes == {0 - One, One}

ScalarFields ==
  {"contrast", "saturation", "temperature", "tint", "shadows", "highlights"}
WheelFields == {"lift", "gamma", "gain"}

\* The defaults with one scalar control, or one channel of one colour wheel,
\* moved to v.
WithScalar(f, v) == [defaultParams EXCEPT ![f] = v]
WithWheel(f, ch, v) == [defaultParams EXCEPT ![f][ch] = v]

\* Every control at the same end of its range, and the mixed corners the
\* clamping has to absorb.
AllAt(v) ==
  [contrast |-> v, saturation |-> v, temperature |-> v, tint |-> v,
   shadows |-> v, highlights |-> v,
   lift |-> RGB(v, v, v), gamma |-> RGB(v, v, v), gain |-> RGB(v, v, v)]
Corners ==
  {AllAt(One), AllAt(0 - One),
   [AllAt(One) EXCEPT !.contrast = 0 - One],
   [AllAt(0 - One) EXCEPT !.contrast = One, !.saturation = One],
   [defaultParams EXCEPT !.contrast = One, !.saturation = One,
      !.gain = RGB(One, One, One)],
   [defaultParams EXCEPT !.contrast = 0 - One, !.saturation = 0 - One]}

\* The parameter sets the pipeline is run on: the defaults, the presets, the
\* defaults with one control at an end of its range, and the corners.
ParamSets ==
  {defaultParams} \cup {presets[n] : n \in PresetNames}
    \cup {WithScalar(f, v) : f \in ScalarFields, v \in Extremes}
    \cup {WithWheel(f, ch, v) : f \in WheelFields, ch \in {"r", "g", "b"}, v \in Extremes}
    \cup Corners

\* Input channel values k / SampleSteps, k = 0 .. SampleSteps.
SampleSteps == 5
Levels == {FDiv(FromInt(k), FromInt(SampleSteps)) : k \in 0..SampleSteps}
Samples == {RGB(r, g, b) : r \in Levels, g \in Levels, b \in Levels}

\* --------------------------------------------------------------- serializer

DigitChar(d) == <<"0", "1", "2", "3", "4", "5", "6", "7", "8", "9">>[d + 1]

\* The n low decimal digits of m, most significant first.
RECURSIVE FracDigits(_, _)
FracDigits(m, n) ==
  IF n = 0 THEN <<>> ELSE Append(FracDigits(m \div 10, n - 1), DigitChar(m % 10))

\* The decimal digits of the integer k >= 0, at least one.
RECURSIVE IntDigits(_)
IntDigits(k) ==
  IF k < 10 THEN <<DigitChar(k)>> ELSE Append(IntDigits(k \div 10), DigitChar(k % 10))

\* Number.prototype.toFixed(digits), digits <= 6: the characters of the
\* nearest decimal with that many places (the larger one on a tie); "NaN"
\* for NaN.
Numeral(neg, m, digits) ==
  (IF neg /\ m > 0 THEN <<"-">> ELSE <<>>)
    \o IntDigits(m \div 10^digits) \o <<".">> \o FracDigits(m % 10^digits, digits)

toFixed(x, digits) ==
  IF IsNaN(x) THEN <<"N", "a", "N">>
  ELSE Numeral(x < 0,
               (2 * Abs(x) * 5^digits + Scale \div 2^digits) \div (2 * (Scale \div 2^digits)),
               digits)

\* A line of the file is the sequence of its space-separated fields: a
\* literal word of the source, an interpolated value, or a rendered number.
Word(w) == [kind |-> "word", text |-> w]
Fixed(x) == [kind |-> "fixed", chars |-> toFixed(x, 6)]

Formats == {"standard", "hevc"}

Header(title, size, format) ==
  <<  <<Word("TITLE"), [kind |-> "title", text |-> title]>>,
      <<>>,
      <<Word("#"), Word("Generated by LUT Generator")>> >>
  \o (IF format = "hevc"
      THEN << <<Word("#"), Word("HEVC-Compatible: Optimized for Apple HEVC/H.265 footage")>>,
              <<Word("#"), Word("Compensates for limited range (16-235) and gamma differences")>> >>
      ELSE <<>>)
  \o << <<Word("#"), Word("Compatible with: Final Cut Pro, Premiere Pro, DaVinci Resolve, After Effects")>>,
        <<>>,
        <<Word("LUT_3D_SIZE"), [kind |-> "size", value |-> size]>>,
        <<>>,
        <<Word("DOMAIN_MIN"), Word("0.0"), Word("0.0"), Word("0.0")>>,
        <<Word("DOMAIN_MAX"), Word("1.0"), Word("1.0"), Word("1.0")>>,
        <<>> >>

\* The input value of axis index i.
GridIn(i, size) == FDiv(FromInt(i), FSub(FromInt(size), One))

\* One iteration of the innermost loop: the sampled input, the transformed
\* output and the line pushed.
Sampled(rIn, gIn, bIn, out) ==
  [rIn |-> rIn, gIn |-> gIn, bIn |-> bIn,
   line |-> <<Fixed(out.r), Fixed(out.g), Fixed(out.b)>>]

CellAt(rIn, gIn, bIn, params, format) ==
  Then(IF format = "hevc" THEN transformColorHEVC(rIn, gIn, bIn, params)
       ELSE transformColor(rIn, gIn, bIn, params),
       LAMBDA out: Sampled(rIn, gIn, bIn, out))

Cell(r, g, b, params, size, format) ==
  CellAt(GridIn(r, size), GridIn(g, size), GridIn(b, size), params, format)

RECURSIVE LoopR(_, _, _, _, _, _, _)
LoopR(r, g, b, params, size, format, acc) ==
  IF r < size
  THEN Then(Append(acc, Cell(r, g, b, params, size, format)),
            LAMBDA a: LoopR(r + 1, g, b, params, size, format, a))
  ELSE acc

RECURSIVE LoopG(_, _, _, _, _, _)
LoopG(g, b, params, size, format, acc) ==
  IF g < size
  THEN Then(LoopR(0, g, b, params, size, format, acc),
            LAMBDA a: LoopG(g + 1, b, params, size, format, a))
  ELSE acc

RECURSIVE LoopB(_, _, _, _, _)
LoopB(b, params, size, format, acc) ==
  IF b < size
  THEN Then(LoopG(0, b, params, size, format, acc),
            LAMBDA a: LoopB(b + 1, params, size, format, a))
  ELSE acc

\* Mutant of CubeCells: the outer loop starts at b = 1.
CubeCellsFromOne(params, size, format) == LoopB(1, params, size, format, <<>>)

\* generateCubeLUT: the iterations of the loop nest in the order they run,
\* and the lines of the returned text.
CubeCells(params, size, format) == LoopB(0, params, size, format, <<>>)

LinesOf(cells) == [n \in 1..Len(cells) |-> cells[n].line]

generateCubeLUT(params, title, size, format) ==
  Header(title, size, format) \o LinesOf(CubeCells(params, size, format))

\* ---------------------------------------------------- the free-text parser

\* A text is a sequence of characters.  The /i flag of the patterns: a
\* letter matches in either case.
Uppers ==
  <<"A", "B", "C", "D", "E", "F", "G", "H", "I", "J", "K", "L", "M",
    "N", "O", "P", "Q", "R", "S", "T", "U", "V", "W", "X", "Y", "Z">>
Lowers ==
  <<"a", "b", "c", "d", "e", "f", "g", "h", "i", "j", "k", "l", "m",
    "n", "o", "p", "q", "r", "s", "t", "u", "v", "w", "x", "y", "z">>
Lower(ch) ==
  IF \E i \in 1..26 : Uppers[i] = ch THEN Lowers[CHOOSE i \in 1..26 : Uppers[i] = ch]
  ELSE ch

\* The character classes of the patterns: [:\s], [,\s], [\d.], [+-].
Digits == {"0", "1", "2", "3", "4", "5", "6", "7", "8", "9"}
Spaces == {" ", "\n", "\t"}
ColonSpace == {":"} \cup Spaces
CommaSpace == {","} \cup Spaces
NumChars == Digits \cup {"."}
Signs == {"+", "-"}

\* class* at j: the index after the longest run of characters of the class.
RunEnd(text, j, class) ==
  CHOOSE k \in j..(Len(text) + 1) :
    /\ \A m \in j..(k - 1) : text[m] \in class
    /\ k = Len(text) + 1 \/ text[k] \notin class

\* A literal word at i: the index after it, 0 when it is not there.
LitEnd(text, i, word) ==
  IF /\ i + Len(word) - 1 <= Len(text)
     /\ \A k \in 1..Len(word) : Lower(text[i + k - 1]) = word[k]
  THEN i + Len(word) ELSE 0

\* (?:word)? at i
OptEnd(text, i, word) == IF LitEnd(text, i, word) # 0 THEN LitEnd(text, i, word) ELSE i

\* ([+-]?[\d.]+) at j: the index after the capture, 0 when there is none.
SignEnd(text, j) == IF j <= Len(text) /\ text[j] \in Signs THEN j + 1 ELSE j
NumberEnd(text, j) ==
  IF RunEnd(text, SignEnd(text, j), NumChars) > SignEnd(text, j)
  THEN RunEnd(text, SignEnd(text, j), NumChars) ELSE 0

\* class+ at j: the index after the run, 0 when the run is empty or j is 0.
SepEnd(text, j, class) ==
  IF j = 0 THEN 0 ELSE IF RunEnd(text, j, class) > j THEN RunEnd(text, j, class) ELSE 0

\* The capture that starts at j, <<>> when there is none.
Capture(text, j) ==
  IF j = 0 \/ NumberEnd(text, j) = 0 THEN <<>> ELSE SubSeq(text, j, NumberEnd(text, j) - 1)

\* The six scalar patterns, in the order of the source; "optS" is the s?
\* of shadows? and highlights?.
patterns ==
  << [key |-> "contrast", optS |-> FALSE,
      word |-> <<"c", "o", "n", "t", "r", "a", "s", "t">>],
     [key |-> "saturation", optS |-> FALSE,
      word |-> <<"s", "a", "t", "u", "r", "a", "t", "i", "o", "n">>],
     [key |-> "temperature", optS |-> FALSE,
      word |-> <<"t", "e", "m", "p", "e", "r", "a", "t", "u", "r", "e">>],
     [key |-> "tint", optS |-> FALSE, word |-> <<"t", "i", "n", "t">>],
     [key |-> "shadows", optS |-> TRUE, word |-> <<"s", "h", "a", "d", "o", "w">>],
     [key |-> "highlights", optS |-> TRUE,
      word |-> <<"h", "i", "g", "h", "l", "i", "g", "h", "t">>] >>

\* word s? [:\s]* ([+-]?[\d.]+) at i: the capture, <<>> when no match.
ScalarTail(text, k, optS) ==
  Capture(text, RunEnd(text, IF optS THEN OptEnd(text, k, <<"s">>) ELSE k, ColonSpace))
ScalarAt(text, i, p) ==
  IF LitEnd(text, i, p.word) = 0 THEN <<>>
  ELSE ScalarTail(text, LitEnd(text, i, p.word), p.optS)

\* response.match(pattern): the capture of the leftmost match.
Leftmost(hits) == CHOOSE i \in hits : \A j \in hits : i <= j
ScalarMatch(text, p) ==
  IF \E i \in 1..Len(text) : ScalarAt(text, i, p) # <<>>
  THEN ScalarAt(text, Leftmost({i \in 1..Len(text) : ScalarAt(text, i, p) # <<>>}), p)
  ELSE <<>>

\* The three RGB patterns.
rgbPatterns ==
  << [key |-> "lift", word |-> <<"l", "i", "f", "t">>],
     [key |-> "gamma", word |-> <<"g", "a", "m", "m", "a">>],
     [key |-> "gain", word |-> <<"g", "a", "i", "n">>] >>

\* [:\s]* (?:rgb)? [:\s]* \(? at k: the index where the first capture starts.
RgbHead(text, k) ==
  OptEnd(text,
         RunEnd(text, OptEnd(text, RunEnd(text, k, ColonSpace), <<"r", "g", "b">>),
                ColonSpace),
         <<"(">>)

\* The starts of the second and third captures, 0 when the match fails.
NextCapture(text, j) ==
  IF j = 0 \/ NumberEnd(text, j) = 0 THEN 0 ELSE SepEnd(text, NumberEnd(text, j), CommaSpace)

RgbCaptures(text, j1, j2, j3) ==
  IF Capture(text, j3) = <<>> THEN <<>>
  ELSE <<Capture(text, j1), Capture(text, j2), Capture(text, j3)>>

RgbFrom(text, j1) ==
  RgbCaptures(text, j1, NextCapture(text, j1), NextCapture(text, NextCapture(text, j1)))

RgbAt(text, i, p) ==
  IF LitEnd(text, i, p.word) = 0 THEN <<>>
  ELSE RgbFrom(text, RgbHead(text, LitEnd(text, i, p.word)))

RgbMatch(text, p) ==
  IF \E i \in 1..Len(text) : RgbAt(text, i, p) # <<>>
  THEN RgbAt(text, Leftmost({i \in 1..Len(text) : RgbAt(text, i, p) # <<>>}), p)
  ELSE <<>>

\* The value of a run of decimal digits.
DigitValue(ch) == CHOOSE d \in 0..9 : DigitChar(d) = ch
RECURSIVE DecimalValue(_)
DecimalValue(ds) ==
  IF ds = <<>> THEN 0
  ELSE 10 * DecimalValue(SubSeq(ds, 1, Len(ds) - 1)) + DigitValue(ds[Len(ds)])

\* Mutant of FloatOf: a capture without a digit counts as 0.
FloatOfOrZero(neg, ints, fracs) ==
  IF ints = <<>> /\ fracs = <<>> THEN Zero
  ELSE IF neg THEN 0 - Lit(DecimalValue(ints \o fracs), 10^Len(fracs))
  ELSE Lit(DecimalValue(ints \o fracs), 10^Len(fracs))

\* parseFloat of a capture: the number the longest prefix sign? digits*
\* (. digits*)? denotes, NaN when that prefix holds no digit.
FloatOf(neg, ints, fracs) ==
  IF ints = <<>> /\ fracs = <<>> THEN NaN
  ELSE IF neg THEN 0 - Lit(DecimalValue(ints \o fracs), 10^Len(fracs))
  ELSE Lit(DecimalValue(ints \o fracs), 10^Len(fracs))

FloatParts(str, s, e) ==
  FloatOf(str[1] = "-",
          SubSeq(str, s, e - 1),
          IF e <= Len(str) /\ str[e] = "."
          THEN SubSeq(str, e + 1, RunEnd(str, e + 1, Digits) - 1) ELSE <<>>)

parseFloat(str) ==
  FloatParts(str, SignEnd(str, 1), RunEnd(str, SignEnd(str, 1), Digits))

\* Math.abs(v) > 1 ? 100 : 1
Percent(v) == IF FGt(Abs(v), One) THEN FromInt(100) ELSE One

\* Mutant of scalarValue: the quotient is not clamped.
scalarValueNoClamp(value) ==
  FMul(FDiv(value, Percent(value)), IF FLt(value, Zero) THEN 0 - One ELSE One)

\* Line 298: clamp(value / (Math.abs(value) > 1 ? 100 : 1)) * (value < 0 ? -1 : 1)
scalarValue(value) ==
  FMul(clamp(FDiv(value, Percent(value))), IF FLt(value, Zero) THEN 0 - One ELSE One)

\* Lines 318-320: Math.max(-1, Math.min(1, r / (Math.abs(r) > 1 ? 100 : 1)))
rgbValue(v) == MathMax(0 - One, MathMin(One, FDiv(v, Percent(v))))

ScalarKeys(text) ==
  {k \in 1..Len(patterns) :
     ScalarMatch(text, patterns[k]) # <<>> /\ ~IsNaN(parseFloat(ScalarMatch(text, patterns[k])))}

RgbOf(caps) == RGB(parseFloat(caps[1]), parseFloat(caps[2]), parseFloat(caps[3]))
RgbNumbers(c) == ~IsNaN(c.r) /\ ~IsNaN(c.g) /\ ~IsNaN(c.b)
RgbKeys(text) ==
  {k \in 1..Len(rgbPatterns) :
     RgbMatch(text, rgbPatterns[k]) # <<>> /\ RgbNumbers(RgbOf(RgbMatch(text, rgbPatterns[k])))}

RgbValue(c) == RGB(rgbValue(c.r), rgbValue(c.g), rgbValue(c.b))

\* parseAIResponse: the partial parameter set, a function of the keys set.
parseAIResponse(response) ==
  [key \in {patterns[k].key : k \in ScalarKeys(response)}
            \cup {rgbPatterns[k].key : k \in RgbKeys(response)} |->
     IF \E k \in ScalarKeys(response) : patterns[k].key = key
     THEN scalarValue(parseFloat(ScalarMatch(response,
            patterns[CHOOSE k \in ScalarKeys(response) : patterns[k].key = key])))
     ELSE RgbValue(RgbOf(RgbMatch(response,
            rgbPatterns[CHOOSE k \in RgbKeys(response) : rgbPatterns[k].key = key])))]

\* -------------------------------------------------------- the image analyzer

\* Math.floor of a number that is not NaN, as an integer.
MathFloor(x) == IF x >= 0 THEN x \div Scale ELSE 0 - ((Scale - 1 - x) \div Scale)

Max3(a, b, c) == MathMax(MathMax(a, b), c)
Min3(a, b, c) == MathMin(MathMin(a, b), c)

\* rgbToHsl: <<h, s, l>>
hslSat(max, min, l, d) ==
  IF FGt(l, Half) THEN FDiv(d, FSub(FSub(FromInt(2), max), min)) ELSE FDiv(d, FAdd(max, min))
hslHue(r, g, b, max, d) ==
  IF max = r
  THEN FDiv(FAdd(FDiv(FSub(g, b), d), IF FLt(g, b) THEN FromInt(6) ELSE Zero), FromInt(6))
  ELSE IF max = g THEN FDiv(FAdd(FDiv(FSub(b, r), d), FromInt(2)), FromInt(6))
  ELSE FDiv(FAdd(FDiv(FSub(r, g), d), FromInt(4)), FromInt(6))
hslOf(r, g, b, max, min, l) ==
  IF max = min THEN <<Zero, Zero, l>>
  ELSE <<hslHue(r, g, b, max, FSub(max, min)), hslSat(max, min, l, FSub(max, min)), l>>
hslRange(r, g, b, max, min) == hslOf(r, g, b, max, min, FDiv(FAdd(max, min), FromInt(2)))
rgbToHsl(r, g, b) == hslRange(r, g, b, Max3(r, g, b), Min3(r, g, b))

getLuminance(r, g, b) ==
  FAdd(FAdd(FMul(Lit(299, 1000), r), FMul(Lit(587, 1000), g)), FMul(Lit(114, 1000), b))

\* A pixel is its three colour bytes (the alpha byte is never read); an
\* image is the sequence of its width * height pixels.
Byte(v) == FDiv(FromInt(v), FromInt(255))
PixelLum(p) == getLuminance(Byte(p.r), Byte(p.g), Byte(p.b))
PixelSat(p) == rgbToHsl(Byte(p.r), Byte(p.g), Byte(p.b))[2]

\* total += value, pixel by pixel from 0.
RECURSIVE Sum(_, _)
Sum(vals, n) == IF n = 0 THEN Zero ELSE FAdd(Sum(vals, n - 1), vals[n])

\* Math.floor(c * 8) / 8
quantize(c) == FDiv(FromInt(MathFloor(FMul(c, FromInt(8)))), FromInt(8))

\* The bucket of a pixel: its quantized colour and the key of the map.
BucketOf(p) ==
  [r |-> quantize(Byte(p.r)), g |-> quantize(Byte(p.g)), b |-> quantize(Byte(p.b)),
   key |-> <<toFixed(quantize(Byte(p.r)), 2), toFixed(quantize(Byte(p.g)), 2),
             toFixed(quantize(Byte(p.b)), 2)>>]

\* The array whose n-th element is the second component of the pair <<n, v>>.
Tabulate(pairs, n) == [k \in 1..n |-> (CHOOSE p \in pairs : p[1] = k)[2]]

\* The bucket of every pixel, in pixel order.
pixelBuckets(data) ==
  Tabulate({<<n, BucketOf(data[n])>> : n \in 1..Len(data)}, Len(data))

\* colorBuckets after the pixel loop: the buckets in the order of their
\* first pixel, each with its count.
FirstOfKey(bs) == {n \in 1..Len(bs) : \A m \in 1..(n - 1) : bs[m].key # bs[n].key}
NthSmallest(S, k) == CHOOSE n \in S : Cardinality({m \in S : m < n}) = k - 1
CountOf(bs, key) == Cardinality({m \in 1..Len(bs) : bs[m].key = key})
BucketEntry(bs, b) == [r |-> b.r, g |-> b.g, b |-> b.b, count |-> CountOf(bs, b.key)]
bucketList(bs) ==
  Tabulate({<<k, BucketEntry(bs, bs[NthSmallest(FirstOfKey(bs), k)])>> :
              k \in 1..Cardinality(FirstOfKey(bs))},
           Cardinality(FirstOfKey(bs)))
colorBuckets(data) == Then(pixelBuckets(data), bucketList)

\* .sort((a, b) => b.count - a.count): by count, largest first, equal
\* counts in their earlier order.
\* The order of a sort by ascending count.
BeforeAscending(buckets, i, j) ==
  buckets[i].count < buckets[j].count \/ (buckets[i].count = buckets[j].count /\ i < j)

Before(buckets, i, j) ==
  buckets[i].count > buckets[j].count \/ (buckets[i].count = buckets[j].count /\ i < j)
SortByCount(buckets) ==
  Tabulate({<<k, buckets[CHOOSE i \in 1..Len(buckets) :
                           Cardinality({j \in 1..Len(buckets) : Before(buckets, j, i)}) = k - 1]>> :
              k \in 1..Len(buckets)},
           Len(buckets))

\* .slice(0, 5).map(...)
dominantOf(c, pixelCount) ==
  [r |-> c.r, g |-> c.g, b |-> c.b,
   percentage |-> FMul(FDiv(FromInt(c.count), FromInt(pixelCount)), FromInt(100))]
TopFive(sorted, pixelCount) ==
  [k \in 1..(IF Len(sorted) < 5 THEN Len(sorted) ELSE 5) |-> dominantOf(sorted[k], pixelCount)]

\* lumValues.sort((a, b) => a - b)
SortAscending(vals) ==
  Tabulate({<<k, CHOOSE v \in {vals[i] : i \in 1..Len(vals)} :
                   /\ Cardinality({i \in 1..Len(vals) : vals[i] < v}) < k
                   /\ k <= Cardinality({i \in 1..Len(vals) : vals[i] <= v})>> :
              k \in 1..Len(vals)},
           Len(vals))
\* The luminances in pixel order, left unsorted.
lumValuesUnsorted(data) ==
  Tabulate({<<n, PixelLum(data[n])>> : n \in 1..Len(data)}, Len(data))

lumValues(data) ==
  Then(Tabulate({<<n, PixelLum(data[n])>> : n \in 1..Len(data)}, Len(data)), SortAscending)

\* lumValues[Math.floor(pixelCount * q)], q = 0.05 or 0.95
Percentile(sorted, q) == sorted[MathFloor(FMul(FromInt(Len(sorted)), q)) + 1]

\* The four histograms, as counts per bin and after the normalization.
Bins == 0..255
lumBins(data) ==
  {<<n, MathFloor(FMul(PixelLum(data[n]), FromInt(255)))>> : n \in 1..Len(data)}
histWith(data, bins) ==
  [r |-> [i \in Bins |-> Cardinality({n \in 1..Len(data) : data[n].r = i})],
   g |-> [i \in Bins |-> Cardinality({n \in 1..Len(data) : data[n].g = i})],
   b |-> [i \in Bins |-> Cardinality({n \in 1..Len(data) : data[n].b = i})],
   luminance |-> [i \in Bins |-> Cardinality({p \in bins : p[2] = i})]]
histCounts(data) == Then(lumBins(data), LAMBDA bins: histWith(data, bins))
maxOf(S) == CHOOSE v \in S : \A w \in S : w <= v
maxHist(h) == maxOf({h[c][i] : c \in DOMAIN h, i \in Bins})
normalizeBy(h, maxHistValue) ==
  IF maxHistValue > 0
  THEN [c \in DOMAIN h |-> [i \in Bins |-> FDiv(FromInt(h[c][i]), FromInt(maxHistValue))]]
  ELSE [c \in DOMAIN h |-> [i \in Bins |-> FromInt(h[c][i])]]
histogramOf(data) == Then(histCounts(data), LAMBDA h: normalizeBy(h, maxHist(h)))

\* (avgR - avgB) / Math.max(avgR, avgB, 0.01)
\* The ratio without the 0.01 floor under the division.
temperatureOfNoFloor(avgR, avgB) == FDiv(FSub(avgR, avgB), MathMax(avgR, avgB))

temperatureOf(avgR, avgB) == FDiv(FSub(avgR, avgB), Max3(avgR, avgB, Lit(1, 100)))

contrastOf(sorted) == FSub(Percentile(sorted, Lit(95, 100)), Percentile(sorted, Lit(5, 100)))

analysisOf(data, pixelCount, avgR, avgG, avgB) ==
  [averageColor |-> RGB(avgR, avgG, avgB),
   dominantColors |-> TopFive(Then(colorBuckets(data), SortByCount), Len(data)),
   brightness |-> FDiv(Sum([k \in 1..Len(data) |-> PixelLum(data[k])], Len(data)), pixelCount),
   contrast |-> contrastOf(lumValues(data)),
   saturation |-> FDiv(Sum([k \in 1..Len(data) |-> PixelSat(data[k])], Len(data)), pixelCount),
   temperature |-> temperatureOf(avgR, avgB),
   histogram |-> histogramOf(data)]

ByteR(p) == Byte(p.r)
ByteG(p) == Byte(p.g)
ByteB(p) == Byte(p.b)

\* The analysis with the totals returned in place of the averages.
averagesOfTotals(data, pixelCount) ==
  analysisOf(data, pixelCount,
             Sum([k \in 1..Len(data) |-> ByteR(data[k])], Len(data)),
             Sum([k \in 1..Len(data) |-> ByteG(data[k])], Len(data)),
             Sum([k \in 1..Len(data) |-> ByteB(data[k])], Len(data)))

averagesOf(data, pixelCount) ==
  analysisOf(data, pixelCount,
             FDiv(Sum([k \in 1..Len(data) |-> ByteR(data[k])], Len(data)), pixelCount),
             FDiv(Sum([k \in 1..Len(data) |-> ByteG(data[k])], Len(data)), pixelCount),
             FDiv(Sum([k \in 1..Len(data) |-> ByteB(data[k])], Len(data)), pixelCount))

analyzeImageData(data) == averagesOf(data, FromInt(Len(data)))

\* Math.max(-1, Math.min(1, x))
clampSigned(x) == MathMax(0 - One, MathMin(One, x))

neutralGray == Half

liftOf(c) == FMul(FSub(c, neutralGray), Lit(3, 10))
gammaOf(c) == FMul(FSub(c, neutralGray), Lit(5, 10))
gainOf(c, maxChannel) == FMul(FSub(FDiv(c, maxChannel), One), Lit(3, 10))

tintOf(avg) ==
  FMul(FSub(avg.g, FDiv(FAdd(avg.r, avg.b), FromInt(2))), Lit(5, 10))
\* The shadows parameter with the band starting at 0.5 in place of 0.4.
shadowsOfBelowHalf(brightness) ==
  IF FLt(brightness, Lit(5, 10)) THEN FMul(0 - FSub(Lit(5, 10), brightness), Lit(5, 10))
  ELSE Zero

shadowsOf(brightness) ==
  IF FLt(brightness, Lit(4, 10)) THEN FMul(0 - FSub(Lit(4, 10), brightness), Lit(5, 10))
  ELSE Zero
highlightsOf(brightness) ==
  IF FGt(brightness, Lit(6, 10)) THEN FMul(FSub(brightness, Lit(6, 10)), Lit(5, 10))
  ELSE Zero

paramsOf(analysis, avg, maxChannel) ==
  [contrast |-> clampSigned(FMul(FSub(analysis.contrast, Half), Lit(6, 10))),
   saturation |-> clampSigned(FMul(FSub(analysis.saturation, Lit(3, 10)), Lit(15, 10))),
   temperature |-> clampSigned(FMul(analysis.temperature, Lit(8, 10))),
   tint |-> clampSigned(tintOf(avg)),
   shadows |-> clampSigned(shadowsOf(analysis.brightness)),
   highlights |-> clampSigned(highlightsOf(analysis.brightness)),
   lift |-> RGB(clampSigned(liftOf(avg.r)), clampSigned(liftOf(avg.g)),
                clampSigned(liftOf(avg.b))),
   gamma |-> RGB(clampSigned(gammaOf(avg.r)), clampSigned(gammaOf(avg.g)),
                 clampSigned(gammaOf(avg.b))),
   gain |-> RGB(clampSigned(gainOf(avg.r, maxChannel)), clampSigned(gainOf(avg.g, maxChannel)),
                clampSigned(gainOf(avg.b, maxChannel)))]

analysisToLUTParams(analysis) ==
  paramsOf(analysis, analysis.averageColor,
           Max3(analysis.averageColor.r, analysis.averageColor.g, analysis.averageColor.b))

\* The texts given to the parser: one scalar clause, two scalar clauses,
\* one RGB clause, and texts that name no parameter or give it no number.
Keywords ==
  { <<"c", "o", "n", "t", "r", "a", "s", "t">>,
    <<"C", "o", "n", "t", "r", "a", "s", "t">>,
    <<"s", "a", "t", "u", "r", "a", "t", "i", "o", "n">>,
    <<"t", "e", "m", "p", "e", "r", "a", "t", "u", "r", "e">>,
    <<"t", "i", "n", "t">>,
    <<"s", "h", "a", "d", "o", "w">>,
    <<"s", "h", "a", "d", "o", "w", "s">>,
    <<"h", "i", "g", "h", "l", "i", "g", "h", "t", "s">> }
Separators == { <<":", " ">>, <<":">>, <<" ">>, <<>> }
NumberTexts ==
  { <<"3", "0">>, <<"-", "2", "0">>, <<"0", ".", "5">>, <<"-", "0", ".", "5">>,
    <<"1", "5", "0">>, <<"-", "1", "5", "0">>, <<"+", "4", "0">>, <<"1">>, <<"-", "1">>,
    <<"0">>, <<".">>, <<"1", ".", "2", ".", "3">>, <<"-", ".", "2", "5">> }
Clause(word, sep, num) == word \o sep \o num

PairKeywords ==
  { <<"c", "o", "n", "t", "r", "a", "s", "t">>,
    <<"s", "a", "t", "u", "r", "a", "t", "i", "o", "n">>,
    <<"t", "i", "n", "t">> }
PairNumbers == { <<"3", "0">>, <<"-", "2", "0">>, <<"0", ".", "5">>, <<"-", "0", ".", "5">> }

RgbKeywords == { <<"l", "i", "f", "t">>, <<"G", "a", "m", "m", "a">>, <<"g", "a", "i", "n">> }
RgbOpeners == { <<":", " ">>, <<" ", "r", "g", "b", "(">>, <<":", " ", "(">> }
RgbNumberTexts ==
  { <<"0", ".", "1">>, <<"-", "0", ".", "2">>, <<"3", "0">>, <<"-", "2", "5", "0">> }

OtherTexts ==
  { <<>>,
    <<"w", "a", "r", "m">>,
    <<"c", "o", "n", "t", "r", "a", "s", "t", ":", " ", "h", "i", "g", "h">>,
    <<"l", "i", "f", "t", ":", " ", "0", ".", "1", ",", " ", "0", ".", "2">>,
    <<"g", "a", "i", "n", ":", " ", ".", ",", " ", "0", ".", "1", ",", " ", "0", ".", "2">> }

Texts ==
  {Clause(w, s, n) : w \in Keywords, s \in Separators, n \in NumberTexts}
  \cup {Clause(w[1], <<":", " ">>, n[1]) \o <<",", " ">> \o Clause(w[2], <<":", " ">>, n[2]) :
          w \in {v \in PairKeywords \X PairKeywords : v[1] # v[2]},
          n \in PairNumbers \X PairNumbers}
  \cup {w \o o \o n[1] \o <<",", " ">> \o n[2] \o <<",", " ">> \o n[3] \o <<")">> :
          w \in RgbKeywords, o \in RgbOpeners,
          n \in RgbNumberTexts \X RgbNumberTexts \X RgbNumberTexts}
  \cup OtherTexts

\* The images given to the analyzer: 1 .. MaxPixels pixels of the colours
\* of Palette, and images of nine pixels that hold seven colours of seven
\* different buckets, in every rotation, two of them once more.
MaxPixels == 3
Pixel(r, g, b) == [r |-> r, g |-> g, b |-> b]
Palette ==
  { Pixel(0, 0, 0), Pixel(255, 255, 255), Pixel(255, 0, 0), Pixel(0, 0, 255),
    Pixel(201, 100, 50), Pixel(10, 20, 30) }
SevenColours ==
  << Pixel(255, 0, 0), Pixel(0, 255, 0), Pixel(0, 0, 255), Pixel(255, 255, 255),
     Pixel(0, 0, 0), Pixel(128, 128, 128), Pixel(201, 100, 50) >>
Rotated(seq, k) == [n \in 1..Len(seq) |-> seq[((n + k - 1) % Len(seq)) + 1]]
Repeats == {Pixel(0, 255, 0), Pixel(128, 128, 128), Pixel(201, 100, 50)}
LongImages ==
  {Rotated(SevenColours, k) \o <<c, d>> : k \in 0..6, c \in Repeats, d \in Repeats}
Images == UNION {[1..n -> Palette] : n \in 1..MaxPixels} \cup LongImages

\* ---------------------------------------------------------------- the state

VARIABLES
  tParams,   \* transform: the parameter set of the call
  tIn,       \* transform: the input sample
  tMode,     \* transform: "idle", or which transform has returned
  tOut,      \* transform: the returned sample
  cParams,   \* serializer: the parameter set of the call
  cTitle,    \* serializer: the title
  cSize,     \* serializer: the grid size
  cFormat,   \* serializer: the output format
  cDone,     \* serializer: generateCubeLUT has returned
  cCells,    \* serializer: the loop's iterations, in order
  cLines,    \* serializer: the lines of the returned text
  pText,     \* parser: the response text
  pDone,     \* parser: parseAIResponse has returned
  pOut,      \* parser: the returned partial parameter set
  aImage,    \* analyzer: the pixels of the image
  aPhase,    \* analyzer: "idle", "analyzed" or "converted"
  aAnalysis, \* analyzer: the ImageAnalysis returned by analyzeImageData
  aParams,   \* analyzer: the parameters returned by analysisToLUTParams
  gLog,      \* repeated calls: the generateCubeLUT calls made, with their texts
  hCall,     \* shadows/highlights: the arguments of the call and its result
  sCall,     \* stages: the arguments of one stage call and its result
  oRun,      \* pixel order: an image, a reordering of it and their two analyses
  mem,       \* merging: the parameter objects in memory and the operations made
  up,        \* uploads: the files chosen, their callbacks and the stored analysis
  post,      \* the POST handler: the request, the environment and the response
  gen        \* the page: its inputs, the generation in progress, result and error

tVars == <<tParams, tIn, tMode, tOut>>
cVars == <<cParams, cTitle, cSize, cFormat, cDone, cCells, cLines>>
pVars == <<pText, pDone, pOut>>
aVars == <<aImage, aPhase, aAnalysis, aParams>>
vars == <<tVars, cVars, pVars, aVars, gLog, hCall, sCall, oRun, mem, up, post, gen>>

TransformIdle ==
  /\ tParams = defaultParams /\ tIn = RGB(Zero, Zero, Zero)
  /\ tMode = "idle" /\ tOut = RGB(Zero, Zero, Zero)

CubeIdle ==
  /\ cParams = defaultParams /\ cTitle = "Generated LUT" /\ cSize = 0
  /\ cFormat = "standard" /\ cDone = FALSE /\ cCells = <<>> /\ cLines = <<>>

ParseIdle == pText = <<>> /\ pDone = FALSE /\ pOut = <<>>

RepeatIdle == gLog = <<>>

ShadowsIdle == hCall = <<>>

GenerateIdle == gen = <<>>

PostIdle == post = <<>>

UploadIdle == up = <<>>

MergeIdle == mem = <<>>

OrderIdle == oRun = <<>>

StagesIdle == sCall = <<>>

AnalysisIdle ==
  /\ aImage = <<>> /\ aPhase = "idle" /\ aAnalysis = <<>> /\ aParams = defaultParams

\* ------------------------------------------------- the colour transforms

InitTransform ==
  /\ tParams \in ParamSets
  /\ tIn \in Samples
  /\ tMode = "idle"
  /\ tOut = RGB(Zero, Zero, Zero)
  /\ CubeIdle /\ ParseIdle /\ AnalysisIdle /\ RepeatIdle /\ ShadowsIdle /\ StagesIdle /\ OrderIdle /\ MergeIdle /\ UploadIdle /\ PostIdle /\ GenerateIdle

CallTransformColor ==
  /\ tMode = "idle"
  /\ tOut' = transformColor(tIn.r, tIn.g, tIn.b, tParams)
  /\ tMode' = "standard"
  /\ UNCHANGED <<tParams, tIn, cVars, pVars, aVars, gLog, hCall, sCall, oRun, mem, up, post, gen>>

CallTransformColorHEVC ==
  /\ tMode = "idle"
  /\ tOut' = transformColorHEVC(tIn.r, tIn.g, tIn.b, tParams)
  /\ tMode' = "hevc"
  /\ UNCHANGED <<tParams, tIn, cVars, pVars, aVars, gLog, hCall, sCall, oRun, mem, up, post, gen>>

NextTransform == CallTransformColor \/ CallTransformColorHEVC

SpecTransform == InitTransform /\ [][NextTransform]_vars

\* ------------------------------------------------------ the .cube serializer

\* Grid sizes 0 .. MaxSize.
MaxSize == 3

Titles == {"Generated LUT", "Custom LUT"}

CubeParamSets == {defaultParams} \cup {presets[n] : n \in PresetNames} \cup Corners

InitCube ==
  /\ cParams \in CubeParamSets
  /\ cTitle \in Titles
  /\ cSize \in 0..MaxSize
  /\ cFormat \in Formats
  /\ cDone = FALSE /\ cCells = <<>> /\ cLines = <<>>
  /\ TransformIdle /\ ParseIdle /\ AnalysisIdle /\ RepeatIdle /\ ShadowsIdle /\ StagesIdle /\ OrderIdle /\ MergeIdle /\ UploadIdle /\ PostIdle /\ GenerateIdle

CallGenerateCubeLUT ==
  /\ ~cDone
  /\ cCells' = CubeCells(cParams, cSize, cFormat)
  /\ cLines' = generateCubeLUT(cParams, cTitle, cSize, cFormat)
  /\ cDone' = TRUE
  /\ UNCHANGED <<cParams, cTitle, cSize, cFormat, tVars, pVars, aVars, gLog, hCall, sCall, oRun, mem, up, post, gen>>

NextCube == CallGenerateCubeLUT

SpecCube == InitCube /\ [][NextCube]_vars

\* ------------------------------------------------------- the text parser

InitParse ==
  /\ pText \in Texts
  /\ pDone = FALSE /\ pOut = <<>>
  /\ TransformIdle /\ CubeIdle /\ AnalysisIdle /\ RepeatIdle /\ ShadowsIdle /\ StagesIdle /\ OrderIdle /\ MergeIdle /\ UploadIdle /\ PostIdle /\ GenerateIdle

CallParseAIResponse ==
  /\ ~pDone
  /\ pOut' = parseAIResponse(pText)
  /\ pDone' = TRUE
  /\ UNCHANGED <<pText, tVars, cVars, aVars, gLog, hCall, sCall, oRun, mem, up, post, gen>>

NextParse == CallParseAIResponse

SpecParse == InitParse /\ [][NextParse]_vars

\* ------------------------------------------------------ the image analyzer

InitAnalysis ==
  /\ aImage \in Images
  /\ aPhase = "idle" /\ aAnalysis = <<>> /\ aParams = defaultParams
  /\ TransformIdle /\ CubeIdle /\ ParseIdle /\ RepeatIdle /\ ShadowsIdle /\ StagesIdle /\ OrderIdle /\ MergeIdle /\ UploadIdle /\ PostIdle /\ GenerateIdle

CallAnalyzeImageData ==
  /\ aPhase = "idle"
  /\ aAnalysis' = analyzeImageData(aImage)
  /\ aPhase' = "analyzed"
  /\ UNCHANGED <<aImage, aParams, tVars, cVars, pVars, gLog, hCall, sCall, oRun, mem, up, post, gen>>

CallAnalysisToLUTParams ==
  /\ aPhase = "analyzed"
  /\ aParams' = analysisToLUTParams(aAnalysis)
  /\ aPhase' = "converted"
  /\ UNCHANGED <<aImage, aAnalysis, tVars, cVars, pVars, gLog, hCall, sCall, oRun, mem, up, post, gen>>

NextAnalysis == CallAnalyzeImageData \/ CallAnalysisToLUTParams

SpecAnalysis == InitAnalysis /\ [][NextAnalysis]_vars

\* ------------------------------------------- repeated calls of the serializer

\* Calls of generateCubeLUT in one session, up to MaxCalls of them, with
\* calls of the transforms between them.
MaxCalls == 2

RepeatArgs ==
  { [params |-> defaultParams, title |-> "Generated LUT", size |-> 2, format |-> "standard"],
    [params |-> defaultParams, title |-> "Custom LUT", size |-> 2, format |-> "standard"],
    [params |-> defaultParams, title |-> "Generated LUT", size |-> 2, format |-> "hevc"],
    [params |-> presets.vintage_film, title |-> "Generated LUT", size |-> 2,
     format |-> "standard"],
    [params |-> presets.vintage_film, title |-> "Generated LUT", size |-> 1,
     format |-> "hevc"],
    [params |-> presets.black_and_white, title |-> "Custom LUT", size |-> 0,
     format |-> "standard"] }

\* Mutant of CallRecord: the lines array outlives the call, so a call
\* returns the lines of the calls before it too.
CallRecordKeepingLines(log, args) ==
  [args |-> args,
   text |-> (IF log = <<>> THEN <<>> ELSE log[Len(log)].text)
              \o generateCubeLUT(args.params, args.title, args.size, args.format)]

\* One call: its arguments and the text it returns.
CallRecord(log, args) ==
  [args |-> args,
   text |-> generateCubeLUT(args.params, args.title, args.size, args.format)]

InitRepeat ==
  /\ gLog = <<>>
  /\ tParams \in {defaultParams, presets.high_contrast}
  /\ tIn = RGB(Half, One, Zero)
  /\ tMode = "idle" /\ tOut = RGB(Zero, Zero, Zero)
  /\ CubeIdle /\ ParseIdle /\ AnalysisIdle /\ ShadowsIdle /\ StagesIdle /\ OrderIdle /\ MergeIdle /\ UploadIdle /\ PostIdle /\ GenerateIdle

RepeatGenerateCubeLUT ==
  /\ Len(gLog) < MaxCalls
  /\ \E args \in RepeatArgs : gLog' = Append(gLog, CallRecord(gLog, args))
  /\ UNCHANGED <<tVars, cVars, pVars, aVars, hCall, sCall, oRun, mem, up, post, gen>>

RepeatTransformColor ==
  /\ tMode # "standard"
  /\ tOut' = transformColor(tIn.r, tIn.g, tIn.b, tParams)
  /\ tMode' = "standard"
  /\ UNCHANGED <<tParams, tIn, cVars, pVars, aVars, gLog, hCall, sCall, oRun, mem, up, post, gen>>

RepeatTransformColorHEVC ==
  /\ tMode # "hevc"
  /\ tOut' = transformColorHEVC(tIn.r, tIn.g, tIn.b, tParams)
  /\ tMode' = "hevc"
  /\ UNCHANGED <<tParams, tIn, cVars, pVars, aVars, gLog, hCall, sCall, oRun, mem, up, post, gen>>

NextRepeat == RepeatGenerateCubeLUT \/ RepeatTransformColor \/ RepeatTransformColorHEVC

SpecRepeat == InitRepeat /\ [][NextRepeat]_vars

\* ------------------------------------------------ shadows/highlights calls

\* Channel values k / ShadowSteps, the midpoint 0.5 and its two neighbours.
ShadowSteps == 8
ShadowLevels ==
  {FDiv(FromInt(k), FromInt(ShadowSteps)) : k \in 0..ShadowSteps}
    \cup {Half, Half - 2^(FracBits - MantBits), Half + 2^(FracBits - MantBits)}
ShadowInputs == {RGB(a, b, FSub(One, a)) : a \in ShadowLevels, b \in ShadowLevels}

\* The values of the two controls: the ends of [-1,1], 0 and two inner values.
\* A call records mid, the channels after the shadows adjustment, and out,
\* the channels returned.
ShadowControls == {0 - One, 0 - Lit(3, 10), Zero, Half, One}

InitShadows ==
  /\ hCall \in {[rgb |-> c, shadows |-> s, highlights |-> h, done |-> FALSE, mid |-> c,
                 out |-> c] :
                  c \in ShadowInputs, s \in ShadowControls, h \in ShadowControls}
  /\ TransformIdle /\ CubeIdle /\ ParseIdle /\ AnalysisIdle /\ RepeatIdle /\ StagesIdle /\ OrderIdle /\ MergeIdle /\ UploadIdle /\ PostIdle /\ GenerateIdle

CallApplyShadowsHighlights ==
  /\ hCall # <<>> /\ ~hCall.done
  /\ hCall' = [hCall EXCEPT
                 !.done = TRUE,
                 !.mid = RGB(shadowsStep(hCall.rgb.r, hCall.shadows),
                             shadowsStep(hCall.rgb.g, hCall.shadows),
                             shadowsStep(hCall.rgb.b, hCall.shadows)),
                 !.out = applyShadowsHighlights(hCall.rgb.r, hCall.rgb.g, hCall.rgb.b,
                                                hCall.shadows, hCall.highlights)]
  /\ UNCHANGED <<tVars, cVars, pVars, aVars, gLog, sCall, oRun, mem, up, post, gen>>

NextShadows == CallApplyShadowsHighlights

SpecShadows == InitShadows /\ [][NextShadows]_vars

\* ------------------------------------------ temperature and contrast calls

\* Channel values k / StageSteps and the pivot 0.5, and the values of the
\* controls.
StageSteps == 4
StageLevels == {FDiv(FromInt(k), FromInt(StageSteps)) : k \in 0..StageSteps} \cup {Half}
StageInputs == {RGB(r, g, b) : r \in StageLevels, g \in StageLevels, b \in StageLevels}
StageControls == {0 - One, 0 - Lit(3, 10), Zero, Half, One}

\* One call of applyTemperature, and one of the three applyContrast calls
\* transformColor makes with the same contrast.
TemperatureCalls ==
  {[stage |-> "temperature", rgb |-> c, temp |-> t, tint |-> n, done |-> FALSE, out |-> c] :
     c \in StageInputs, t \in StageControls, n \in StageControls}
ContrastCalls ==
  {[stage |-> "contrast", rgb |-> c, contrast |-> k, done |-> FALSE, out |-> c,
    denominator |-> Zero, factor |-> Zero] :
     c \in StageInputs, k \in StageControls}

InitStages ==
  /\ sCall \in TemperatureCalls \cup ContrastCalls
  /\ TransformIdle /\ CubeIdle /\ ParseIdle /\ AnalysisIdle /\ RepeatIdle /\ ShadowsIdle /\ OrderIdle /\ MergeIdle /\ UploadIdle /\ PostIdle /\ GenerateIdle

CallApplyTemperature ==
  /\ sCall # <<>> /\ sCall.stage = "temperature" /\ ~sCall.done
  /\ sCall' = [sCall EXCEPT
                 !.done = TRUE,
                 !.out = applyTemperature(sCall.rgb.r, sCall.rgb.g, sCall.rgb.b,
                                          sCall.temp, sCall.tint)]
  /\ UNCHANGED <<tVars, cVars, pVars, aVars, gLog, hCall, oRun, mem, up, post, gen>>

CallApplyContrast ==
  /\ sCall # <<>> /\ sCall.stage = "contrast" /\ ~sCall.done
  /\ sCall' = [sCall EXCEPT
                 !.done = TRUE,
                 !.denominator = contrastDenominator(sCall.contrast),
                 !.factor = contrastFactor(sCall.contrast),
                 !.out = RGB(applyContrast(sCall.rgb.r, sCall.contrast),
                             applyContrast(sCall.rgb.g, sCall.contrast),
                             applyContrast(sCall.rgb.b, sCall.contrast))]
  /\ UNCHANGED <<tVars, cVars, pVars, aVars, gLog, hCall, oRun, mem, up, post, gen>>

NextStages == CallApplyTemperature \/ CallApplyContrast

SpecStages == InitStages /\ [][NextStages]_vars

\* --------------------------------------------- the order of the pixels

\* Every image of up to OrderPixels pixels of three colours with each of its
\* reorderings, and an image of seven buckets with each of its rotations.
OrderPixels == 3
OrderPalette == {Pixel(201, 100, 50), Pixel(10, 20, 30), Pixel(255, 255, 255)}
OrderImages == UNION {[1..n -> OrderPalette] : n \in 1..OrderPixels}
Reordered(image, f) == [n \in 1..Len(image) |-> image[f[n]]]
OrderPairs ==
  UNION {{<<image, Reordered(image, f)>> : f \in Permutations(1..Len(image))} :
           image \in OrderImages}
    \cup {<<SevenColours, Rotated(SevenColours, k)>> : k \in 1..6}

InitOrder ==
  /\ oRun \in {[image |-> pair[1], other |-> pair[2], phase |-> "idle",
                 first |-> <<>>, second |-> <<>>] : pair \in OrderPairs}
  /\ TransformIdle /\ CubeIdle /\ ParseIdle /\ AnalysisIdle /\ RepeatIdle
  /\ ShadowsIdle /\ StagesIdle /\ MergeIdle /\ UploadIdle /\ PostIdle /\ GenerateIdle

AnalyzeInOrder ==
  /\ oRun # <<>> /\ oRun.phase = "idle"
  /\ oRun' = [oRun EXCEPT !.phase = "first", !.first = analyzeImageData(oRun.image)]
  /\ UNCHANGED <<tVars, cVars, pVars, aVars, gLog, hCall, sCall, mem, up, post, gen>>

AnalyzeReordered ==
  /\ oRun # <<>> /\ oRun.phase = "first"
  /\ oRun' = [oRun EXCEPT !.phase = "both", !.second = analyzeImageData(oRun.other)]
  /\ UNCHANGED <<tVars, cVars, pVars, aVars, gLog, hCall, sCall, mem, up, post, gen>>

NextOrder == AnalyzeInOrder \/ AnalyzeReordered

SpecOrder == InitOrder /\ [][NextOrder]_vars

\* ------------------------------------------------ merging onto defaults

\* The parameter objects the modules create when they load: defaultParams
\* and the eight presets, in the order of their declaration.
DefaultRef == 1
PresetOrder ==
  <<"cinematic_orange_teal", "vintage_film", "black_and_white", "high_contrast",
    "muted_pastel", "warm_golden", "cool_blue", "vibrant_pop">>
PresetRef(k) == DefaultRef + k
LoadedObjects == <<defaultParams>> \o [k \in 1..Len(PresetOrder) |-> presets[PresetOrder[k]]]

\* The fields of { ...a, ...b }: those of b over those of a.
Overlay(a, b) ==
  [f \in DOMAIN a \cup DOMAIN b |-> IF f \in DOMAIN b THEN b[f] ELSE a[f]]

\* The merge written as an assignment of the fields of b to the object a.
SpreadInPlace(objs, a, b) ==
  Append([objs EXCEPT ![a] = Overlay(objs[a], b)], Overlay(objs[a], b))

\* { ...objs[a], ...b }: a new object after the existing ones.
Spread(objs, a, b) == Append(objs, Overlay(objs[a], b))

\* Partial parameter sets (parsed text, request bodies): none, one or some
\* of the fields, or all of them; and the edits of the manual controls.
MaxMerges == 3
MergePartials ==
  { <<>>, [contrast |-> Pct(30)],
    [saturation |-> Pct(-20), lift |-> RGB(Pct(10), Zero, Pct(-10))],
    presets.vintage_film }
ManualEdits ==
  { [contrast |-> Pct(50)], [saturation |-> Pct(-30)], [gain |-> RGB(Pct(10), Zero, Zero)] }

InitMerge ==
  /\ mem = [objs |-> LoadedObjects, manualParams |-> DefaultRef, ops |-> <<>>]
  /\ TransformIdle /\ CubeIdle /\ ParseIdle /\ AnalysisIdle /\ RepeatIdle
  /\ ShadowsIdle /\ StagesIdle /\ OrderIdle /\ UploadIdle /\ PostIdle /\ GenerateIdle

\* The record of one operation: its name, the object merged onto, the
\* partial, and the object it built or used.
MergeOp(name, base, partial, made) ==
  [op |-> name, base |-> base, partial |-> partial, made |-> made]

MergeOpen == mem # <<>> /\ Len(mem.ops) < MaxMerges

GenerateLUTFromDescription ==
  /\ MergeOpen
  /\ \E aiParams \in MergePartials :
       mem' = [mem EXCEPT
                 !.objs = Spread(mem.objs, DefaultRef, aiParams),
                 !.ops = Append(mem.ops, MergeOp("generateLUTFromDescription", DefaultRef,
                                                 aiParams, Len(mem.objs) + 1))]
  /\ UNCHANGED <<tVars, cVars, pVars, aVars, gLog, hCall, sCall, oRun, up, post, gen>>

PostManualParams ==
  /\ MergeOpen
  /\ \E manualParams \in MergePartials :
       mem' = [mem EXCEPT
                 !.objs = Spread(mem.objs, DefaultRef, manualParams),
                 !.ops = Append(mem.ops, MergeOp("POST", DefaultRef, manualParams,
                                                 Len(mem.objs) + 1))]
  /\ UNCHANGED <<tVars, cVars, pVars, aVars, gLog, hCall, sCall, oRun, up, post, gen>>

UpdateManualParam ==
  /\ MergeOpen
  /\ \E edit \in ManualEdits :
       mem' = [mem EXCEPT
                 !.objs = Spread(mem.objs, mem.manualParams, edit),
                 !.manualParams = Len(mem.objs) + 1,
                 !.ops = Append(mem.ops, MergeOp("updateManualParam", mem.manualParams,
                                                 edit, Len(mem.objs) + 1))]
  /\ UNCHANGED <<tVars, cVars, pVars, aVars, gLog, hCall, sCall, oRun, up, post, gen>>

\* generateLUT in manual or preset mode: generateCubeLUT reads the object.
GenerateFromObject ==
  /\ MergeOpen
  /\ \E ref \in {mem.manualParams} \cup {PresetRef(k) : k \in 1..Len(PresetOrder)} :
       mem' = [mem EXCEPT
                 !.ops = Append(mem.ops, MergeOp("generateLUT", ref, <<>>, ref))]
  /\ UNCHANGED <<tVars, cVars, pVars, aVars, gLog, hCall, sCall, oRun, up, post, gen>>

NextMerge ==
  GenerateLUTFromDescription \/ PostManualParams \/ UpdateManualParam \/ GenerateFromObject

SpecMerge == InitMerge /\ [][NextMerge]_vars

\* ------------------------------------------------------- image uploads

\* The files the user may choose, each the pixels its image draws on the
\* canvas.
MaxUploads == 2
UploadFiles ==
  { <<Pixel(255, 0, 0)>>, <<Pixel(0, 0, 255), Pixel(255, 255, 255)>>,
    <<Pixel(10, 20, 30), Pixel(128, 128, 128)>>, <<Pixel(0, 0, 0)>> }

\* The page before any upload: no image shown, no analysis stored.
InitUpload ==
  /\ up = [files |-> <<>>, stage |-> <<>>, uploadedImage |-> <<>>, imageAnalysis |-> <<>>]
  /\ TransformIdle /\ CubeIdle /\ ParseIdle /\ AnalysisIdle /\ RepeatIdle
  /\ ShadowsIdle /\ StagesIdle /\ OrderIdle /\ MergeIdle /\ PostIdle /\ GenerateIdle

\* handleImageUpload: a FileReader is created and starts reading the file.
HandleImageUpload ==
  /\ up # <<>> /\ Len(up.files) < MaxUploads
  /\ \E file \in UploadFiles :
       up' = [up EXCEPT !.files = Append(up.files, file),
                        !.stage = Append(up.stage, "reading")]
  /\ UNCHANGED <<tVars, cVars, pVars, aVars, gLog, hCall, sCall, oRun, mem, post, gen>>

\* reader.onload of the n-th upload: the Image is created and starts loading.
ReaderOnload ==
  /\ up # <<>>
  /\ \E n \in 1..Len(up.files) :
       /\ up.stage[n] = "reading"
       /\ up' = [up EXCEPT !.stage[n] = "loading"]
  /\ UNCHANGED <<tVars, cVars, pVars, aVars, gLog, hCall, sCall, oRun, mem, post, gen>>

\* img.onload of the n-th upload: the image is shown, drawn and analysed.
ImgOnload ==
  /\ up # <<>>
  /\ \E n \in 1..Len(up.files) :
       /\ up.stage[n] = "loading"
       /\ up' = [up EXCEPT !.stage[n] = "done",
                            !.uploadedImage = up.files[n],
                            !.imageAnalysis = analyzeImageData(up.files[n])]
  /\ UNCHANGED <<tVars, cVars, pVars, aVars, gLog, hCall, sCall, oRun, mem, post, gen>>

NextUpload == HandleImageUpload \/ ReaderOnload \/ ImgOnload

SpecUpload == InitUpload /\ [][NextUpload]_vars

\* ------------------------------------------------------ the POST handler

\* String.prototype.toLowerCase, includes and slice(0, n).
RECURSIVE toLowerCase(_)
toLowerCase(str) ==
  IF Len(str) = 0 THEN ""
  ELSE Lower(SubSeq(str, 1, 1)) \o toLowerCase(SubSeq(str, 2, Len(str)))
includes(str, word) ==
  \E i \in 1..(Len(str) - Len(word) + 1) : SubSeq(str, i, i + Len(word) - 1) = word
sliceFromStart(str, n) == SubSeq(str, 1, IF Len(str) < n THEN Len(str) ELSE n)

\* replace(/[^a-zA-Z0-9\s]/g, ''): only letters, digits and white space stay.
RECURSIVE stripSymbols(_)
stripSymbols(str) ==
  IF Len(str) = 0 THEN ""
  ELSE (IF \/ \E i \in 1..26 : SubSeq(str, 1, 1) \in {Uppers[i], Lowers[i]}
           \/ SubSeq(str, 1, 1) \in Digits \cup Spaces
        THEN SubSeq(str, 1, 1) ELSE "") \o stripSymbols(SubSeq(str, 2, Len(str)))

\* The keys of the presets table as the requests spell them, and the
\* property names every object inherits from Object.prototype, which the
\* lookup presets[preset] finds as well.
PresetKeys ==
  <<"cinematic-orange-teal", "vintage-film", "black-and-white", "high-contrast",
    "muted-pastel", "warm-golden", "cool-blue", "vibrant-pop">>
PresetNamed(name) ==
  presets[PresetOrder[CHOOSE k \in 1..Len(PresetKeys) : PresetKeys[k] = name]]
OwnPreset(name) == \E k \in 1..Len(PresetKeys) : PresetKeys[k] = name
InheritedNames == {"constructor", "toString", "valueOf", "hasOwnProperty"}
presetsHas(name) == OwnPreset(name) \/ name \in InheritedNames

\* The if / else-if chain of the fallback: the preset matched, "" for null.
matchedPresetOf(promptLower) ==
  IF includes(promptLower, "cinematic") \/ includes(promptLower, "teal")
       \/ includes(promptLower, "orange") THEN "cinematic-orange-teal"
  ELSE IF includes(promptLower, "vintage") \/ includes(promptLower, "film")
       \/ includes(promptLower, "retro") THEN "vintage-film"
  ELSE IF includes(promptLower, "black") /\ includes(promptLower, "white")
       THEN "black-and-white"
  ELSE IF includes(promptLower, "high contrast") \/ includes(promptLower, "dramatic")
       THEN "high-contrast"
  ELSE IF includes(promptLower, "muted") \/ includes(promptLower, "pastel")
       \/ includes(promptLower, "soft") THEN "muted-pastel"
  ELSE IF includes(promptLower, "warm") \/ includes(promptLower, "golden")
       \/ includes(promptLower, "sunset") THEN "warm-golden"
  ELSE IF includes(promptLower, "cool") \/ includes(promptLower, "blue")
       \/ includes(promptLower, "cold") THEN "cool-blue"
  ELSE IF includes(promptLower, "vibrant") \/ includes(promptLower, "pop")
       \/ includes(promptLower, "saturated") THEN "vibrant-pop"
  ELSE ""

\* The responses.  lut is the call of generateCubeLUT that builds the
\* content: its parameters and its title, the size and format defaulted.
Answer(params, title, description, calledModel) ==
  [success |-> TRUE, status |-> 200, lut |-> [params |-> params, title |-> title],
   params |-> params, description |-> description, calledModel |-> calledModel]
Failure(status, calledModel) ==
  [success |-> FALSE, status |-> status, lut |-> <<>>, params |-> <<>>,
   description |-> "", calledModel |-> calledModel]

\* POST: the response to a request body, given whether GROQ_API_KEY is set
\* and what the language model would reply.  A field the body lacks is
\* undefined; an empty string is falsy like undefined.
Field(request, f) == IF f \in DOMAIN request THEN request[f] ELSE ""
POST(request, apiKey, completion) ==
  IF "manualParams" \in DOMAIN request
  THEN Answer(Overlay(defaultParams, request.manualParams), "Manual LUT - date",
              "Custom manual parameters", FALSE)
  ELSE IF Field(request, "preset") # "" /\ presetsHas(request.preset)
  THEN IF OwnPreset(request.preset)
       THEN Answer(PresetNamed(request.preset), request.preset,
                   "Preset: " \o request.preset, FALSE)
       ELSE Failure(500, FALSE)
  ELSE IF Field(request, "prompt") = ""
  THEN Failure(400, FALSE)
  ELSE IF ~apiKey
  THEN IF matchedPresetOf(toLowerCase(request.prompt)) # ""
       THEN Answer(PresetNamed(matchedPresetOf(toLowerCase(request.prompt))),
                   sliceFromStart(request.prompt, 50),
                   "Matched to preset: " \o matchedPresetOf(toLowerCase(request.prompt)),
                   FALSE)
       ELSE Answer(defaultParams, sliceFromStart(request.prompt, 50),
                   "Default neutral LUT", FALSE)
  ELSE IF ~completion.ok
  THEN Failure(500, TRUE)
  ELSE Answer(Overlay(defaultParams, Overlay(defaultParams, parseAIResponse(completion.content))),
              stripSymbols(sliceFromStart(request.prompt, 50)),
              "AI-generated from: " \o request.prompt, TRUE)

\* The request bodies: every choice of a prompt, a preset and manual
\* parameters, each possibly absent.
Prompts ==
  { "", " ", "Teal and Orange", "old FILM stock", "Black and White", "black cat",
    "white film", "HIGH CONTRAST", "high key contrast", "Dramatic blue",
    "soft warm", "muted cold", "golden pop", "popular", "Saturated!", "neutral",
    "cool vintage", "sunset", "a moody look that goes on for more than fifty characters, warm" }
PresetFields == {"", "vintage-film", "vibrant-pop", "sepia", "constructor", "toString"}
ManualFields == {[contrast |-> Pct(50)], <<>>}
Requests ==
  { Overlay(Overlay(p, q), m) :
      p \in {<<>>} \cup {[prompt |-> x] : x \in Prompts},
      q \in {<<>>} \cup {[preset |-> x] : x \in PresetFields},
      m \in {<<>>} \cup {[manualParams |-> x] : x \in ManualFields} }
Completions ==
  { [ok |-> FALSE, content |-> <<>>], [ok |-> TRUE, content |-> <<>>],
    [ok |-> TRUE,
      content |-> <<"c", "o", "n", "t", "r", "a", "s", "t", ":", " ", "0", ".", "3">>] }

InitPost ==
  /\ post = [done |-> FALSE]
  /\ TransformIdle /\ CubeIdle /\ ParseIdle /\ AnalysisIdle /\ RepeatIdle
  /\ ShadowsIdle /\ StagesIdle /\ OrderIdle /\ MergeIdle /\ UploadIdle /\ GenerateIdle

\* One request handled from its arrival to its response.
HandlePost ==
  /\ post # <<>> /\ ~post.done
  /\ \E request \in Requests, apiKey \in BOOLEAN, completion \in Completions :
       post' = [done |-> TRUE, request |-> request, apiKey |-> apiKey,
                response |-> POST(request, apiKey, completion)]
  /\ UNCHANGED <<tVars, cVars, pVars, aVars, gLog, hCall, sCall, oRun, mem, up, gen>>

NextPost == HandlePost

SpecPost == InitPost /\ [][NextPost]_vars

\* ------------------------------------------------- the generation cycle

\* React state holding null or a value: the empty sequence or <<value>>.
Null == <<>>
Value(v) == <<v>>

\* What the page offers: the four modes, a prompt, a preset, an analysis.
Modes == {"ai", "image", "preset", "manual"}
PromptTexts == {"", "warm sunset"}
PresetChoices == {"", "vintage-film"}

\* The disabled attribute of the Generate button.
disabled(g) ==
  \/ g.isGenerating
  \/ g.mode = "ai" /\ g.prompt = ""
  \/ g.mode = "image" /\ g.imageAnalysis = Null
  \/ g.mode = "preset" /\ g.selectedPreset = ""

\* The catch block: the message shown for what was thrown.  An Error with
\* an empty message, or a value that is no Error, gets the general message.
GeneralMessage == "An unexpected error occurred while generating the LUT."
errorMessage(err) ==
  IF err.isError /\ err.message # "" THEN err.message ELSE GeneralMessage
Thrown(message) == [isError |-> TRUE, message |-> message]

\* What a synchronous branch may throw, and how the fetch may settle: the
\* server's JSON, a body that is no JSON, or a rejected request.
SyncThrows == {Thrown("can't generate"), Thrown(""), [isError |-> FALSE, message |-> ""]}
FetchReplies ==
  { [kind |-> "json", success |-> TRUE, error |-> ""],
    [kind |-> "json", success |-> FALSE, error |-> "No prompt, preset, or parameters provided"],
    [kind |-> "json", success |-> FALSE, error |-> ""],
    [kind |-> "not json", success |-> FALSE, error |-> ""],
    [kind |-> "rejected", success |-> FALSE, error |-> ""] }

\* The catch block followed by nothing else: setError(message).
caught(g, err) == [g EXCEPT !.error = Value(errorMessage(err)), !.pc = "finally"]
\* The end of the try block: setResult({...}).
resulted(g, from) ==
  [g EXCEPT !.result = Value([description |-> from]), !.pc = "finally"]
\* Mutant of finallyBlock: isGenerating is left as it is.
finallyBlockSkipped(g) == [g EXCEPT !.pc = "idle"]
\* The finally block: setIsGenerating(false).
finallyBlock(g) == [g EXCEPT !.isGenerating = FALSE, !.pc = "idle"]

InitGenerate ==
  /\ gen = [mode |-> "ai", prompt |-> "", selectedPreset |-> "", imageAnalysis |-> Null,
            isGenerating |-> FALSE, result |-> Null, error |-> Null,
            pc |-> "idle", closure |-> Null]
  /\ TransformIdle /\ CubeIdle /\ ParseIdle /\ AnalysisIdle /\ RepeatIdle
  /\ ShadowsIdle /\ StagesIdle /\ OrderIdle /\ MergeIdle /\ UploadIdle /\ PostIdle

\* The user edits the inputs: the mode tabs, the prompt box, the preset
\* grid, and an uploaded image whose analysis arrives.
SetMode ==
  /\ gen # <<>>
  /\ \E m \in Modes : m # gen.mode /\ gen' = [gen EXCEPT !.mode = m]
  /\ UNCHANGED <<tVars, cVars, pVars, aVars, gLog, hCall, sCall, oRun, mem, up, post>>
SetPrompt ==
  /\ gen # <<>>
  /\ \E p \in PromptTexts : p # gen.prompt /\ gen' = [gen EXCEPT !.prompt = p]
  /\ UNCHANGED <<tVars, cVars, pVars, aVars, gLog, hCall, sCall, oRun, mem, up, post>>
SetSelectedPreset ==
  /\ gen # <<>>
  /\ \E n \in PresetChoices \ {""} :
       n # gen.selectedPreset /\ gen' = [gen EXCEPT !.selectedPreset = n]
  /\ UNCHANGED <<tVars, cVars, pVars, aVars, gLog, hCall, sCall, oRun, mem, up, post>>
SetImageAnalysis ==
  /\ gen # <<>> /\ gen.imageAnalysis = Null
  /\ gen' = [gen EXCEPT !.imageAnalysis = Value("analysis")]
  /\ UNCHANGED <<tVars, cVars, pVars, aVars, gLog, hCall, sCall, oRun, mem, up, post>>

\* A click on the enabled button: generateLUT up to its try block, with the
\* inputs of the render it was created in.
ClickGenerate ==
  /\ gen # <<>> /\ gen.pc = "idle" /\ ~disabled(gen)
  /\ gen' = [gen EXCEPT
               !.isGenerating = TRUE, !.error = Null, !.result = Null,
               !.closure = Value([mode |-> gen.mode, prompt |-> gen.prompt,
                                  selectedPreset |-> gen.selectedPreset,
                                  imageAnalysis |-> gen.imageAnalysis]),
               !.pc = "try"]
  /\ UNCHANGED <<tVars, cVars, pVars, aVars, gLog, hCall, sCall, oRun, mem, up, post>>

\* The try block up to its end or to the await of the fetch.
TryBlock ==
  /\ gen # <<>> /\ gen.pc = "try"
  /\ LET c == gen.closure[1] IN
       IF \/ c.mode = "image" /\ c.imageAnalysis # Null
          \/ c.mode = "preset" /\ c.selectedPreset # ""
          \/ c.mode = "manual"
       THEN \/ gen' = resulted(gen, c.mode)
            \/ \E err \in SyncThrows : gen' = caught(gen, err)
       ELSE IF c.mode = "ai" /\ c.prompt # ""
       THEN gen' = [gen EXCEPT !.pc = "await"]
       ELSE gen' = caught(gen, Thrown("Please provide input for generation"))
  /\ UNCHANGED <<tVars, cVars, pVars, aVars, gLog, hCall, sCall, oRun, mem, up, post>>

\* The fetch settles and the rest of the try block runs.
FetchSettles ==
  /\ gen # <<>> /\ gen.pc = "await"
  /\ \E reply \in FetchReplies :
       gen' = IF reply.kind = "rejected" THEN caught(gen, Thrown("Failed to fetch"))
              ELSE IF reply.kind = "not json" THEN caught(gen, Thrown("Unexpected token"))
              ELSE IF ~reply.success
              THEN caught(gen, Thrown(IF reply.error # "" THEN reply.error
                                      ELSE "Failed to generate LUT"))
              ELSE resulted(gen, "ai")
  /\ UNCHANGED <<tVars, cVars, pVars, aVars, gLog, hCall, sCall, oRun, mem, up, post>>

Finally ==
  /\ gen # <<>> /\ gen.pc = "finally"
  /\ gen' = finallyBlock(gen)
  /\ UNCHANGED <<tVars, cVars, pVars, aVars, gLog, hCall, sCall, oRun, mem, up, post>>

NextGenerate ==
  \/ SetMode \/ SetPrompt \/ SetSelectedPreset \/ SetImageAnalysis
  \/ ClickGenerate \/ TryBlock \/ FetchSettles \/ Finally

SpecGenerate == InitGenerate /\ [][NextGenerate]_vars

\* The run-to-completion of the event loop: a started generateLUT runs its
\* try block, a pending fetch settles, and the finally block runs.
SpecGenerateLive ==
  SpecGenerate /\ WF_vars(TryBlock) /\ WF_vars(FetchSettles) /\ WF_vars(Finally)

\* ------------------------------------------------------------------- claims

\* The spacing of the numbers just below 1.0 (2^-53 in the source's doubles).
Ulp == 2^(FracBits - MantBits)

Channels == {"r", "g", "b"}

Within(x, y, tol) == ~IsNaN(x) /\ ~IsNaN(y) /\ Abs(x - y) <= tol

Neutral == tParams = defaultParams

C2_Closure ==
  tMode = "standard" =>
    \A ch \in Channels : ~IsNaN(tOut[ch]) /\ Zero <= tOut[ch] /\ tOut[ch] <= One

C2_Witness ==
  /\ tMode = "standard"
  /\ tParams.contrast = One /\ tParams.saturation = One /\ tParams.gain.r = One
  /\ tIn.r > Half /\ tIn.r < One /\ tIn.g < Half /\ tIn.g > Zero
  /\ tOut.r = One /\ tOut.g = Zero

\* The tolerance of the codec round trip: four units in the last place.
RoundTripTol == 4 * Ulp

\* C9 as stated: with every parameter at 0, transformColorHEVC returns the
\* input sample within tolerance, for every sample of [0,1]^3.
C9_RoundTripEverywhere ==
  (tMode = "hevc" /\ Neutral) =>
    \A ch \in Channels : Within(tOut[ch], tIn[ch], RoundTripTol)

\* The value v moved into the legal range.
ToLegal(v) == IF v < limitedLow THEN limitedLow ELSE IF v > limitedHigh THEN limitedHigh ELSE v

\* C9 as amended: with every parameter at 0, transformColorHEVC returns,
\* within tolerance, a channel of the legal range [0.0627, 0.9216] unchanged,
\* a channel below the range as 0.0627 and a channel above it as 0.9216.
C9_RoundTripInLegalRange ==
  (tMode = "hevc" /\ Neutral) =>
    \A ch \in Channels : Within(tOut[ch], ToLegal(tIn[ch]), RoundTripTol)

C9_Witness ==
  /\ tMode = "hevc" /\ Neutral
  /\ tIn.r > limitedLow /\ tIn.r < Half /\ tIn.g > Half /\ tIn.g < limitedHigh
  /\ tIn.b = One /\ tOut.b = limitedHigh
  /\ tOut.r > limitedLow /\ tOut.g < limitedHigh

FullyDesaturated == tParams = WithScalar("saturation", 0 - One)

\* The gray the claim names: Y = 0.299 r + 0.587 g + 0.114 b.
GrayOf(c) ==
  FAdd(FAdd(FMul(Lit(299, 1000), c.r), FMul(Lit(587, 1000), c.g)), FMul(Lit(114, 1000), c.b))

IsDataLine(line) ==
  Len(line) = 3 /\ \A k \in 1..3 : line[k].kind = "fixed"

DataLineNumbers == {n \in 1..Len(cLines) : IsDataLine(cLines[n])}

\* The n-th data line (0-based) of the returned text.
DataLine(n) == cLines[Len(Header(cTitle, cSize, cFormat)) + n + 1]

\* C3: generateCubeLUT emits exactly size^3 data lines, for every parameter
\* set, every grid size and both formats.
C3_DataLineCount ==
  cDone => Cardinality(DataLineNumbers) = cSize * cSize * cSize

C3_Witness ==
  /\ cDone /\ cSize = MaxSize /\ cFormat = "hevc" /\ cParams # defaultParams
  /\ Cardinality(DataLineNumbers) = MaxSize * MaxSize * MaxSize
  /\ Len(cLines) > MaxSize * MaxSize * MaxSize

\* C4 as stated: the n-th data line (0-based) is the transform of the grid
\* cell with red index n mod N, green index (n div N) mod N and blue index
\* n div N^2; among the first N data lines the red input strictly increases
\* from 0 to 1 while the green and blue inputs stay 0.
C4_RedMajor ==
  cDone =>
    /\ \A n \in 0..(Len(cCells) - 1) :
          /\ cCells[n + 1] = Cell(n % cSize, (n \div cSize) % cSize,
                                  n \div (cSize * cSize), cParams, cSize, cFormat)
          /\ DataLine(n) = cCells[n + 1].line
    /\ cSize >= 1 =>
          /\ cCells[1].rIn = Zero /\ cCells[cSize].rIn = One
          /\ \A n \in 1..(cSize - 1) : FLt(cCells[n].rIn, cCells[n + 1].rIn)
          /\ \A n \in 1..cSize : cCells[n].gIn = Zero /\ cCells[n].bIn = Zero

\* C5 as stated: for every grid size the first grid cell is sampled at input
\* (0,0,0) and the last cell at input (1,1,1) exactly.
C5_GridEnds ==
  (cDone /\ cSize >= 1) =>
    /\ cCells[1].rIn = Zero /\ cCells[1].gIn = Zero /\ cCells[1].bIn = Zero
    /\ cCells[Len(cCells)].rIn = One /\ cCells[Len(cCells)].gIn = One
    /\ cCells[Len(cCells)].bIn = One

\* The characters of a number of [0,1] with exactly six decimals.
IsUnitNumeral(chars) ==
  /\ Len(chars) = 8 /\ chars[2] = "."
  /\ \A k \in 3..8 : chars[k] \in Digits
  /\ \/ chars[1] = "0"
     \/ chars[1] = "1" /\ \A k \in 3..8 : chars[k] = "0"

\* C6 as stated: every channel value written on a data line is a number in
\* [0,1] rendered with exactly 6 decimals, for every grid size the function
\* accepts and both formats.
C6_ChannelsRendered ==
  cDone =>
    \A n \in DataLineNumbers : \A k \in 1..3 : IsUnitNumeral(cLines[n][k].chars)

\* ----------------------------------------------------- claims: the parser

\* The text of the claim: "contrast: 30, saturation: -20".
ExampleText ==
  <<"c", "o", "n", "t", "r", "a", "s", "t", ":", " ", "3", "0", ",", " ",
    "s", "a", "t", "u", "r", "a", "t", "i", "o", "n", ":", " ", "-", "2", "0">>

\* What the claim says a matched scalar v yields: v / 100 when |v| > 1 and v
\* otherwise, with the sign of v (and no further than -1 or 1).
SignedScalar(v) ==
  IF v > One THEN MathMin(One, FDiv(v, FromInt(100)))
  ELSE IF v < 0 - One THEN MathMax(0 - One, FDiv(v, FromInt(100)))
  ELSE v

\* C7 as stated: parseAIResponse gives every matched scalar its value, over
\* 100 when its magnitude exceeds 1, with its sign; "contrast: 30,
\* saturation: -20" yields contrast = 0.3 and saturation = -0.2.
C7_SignPreserved ==
  pDone =>
    /\ \A k \in ScalarKeys(pText) :
         pOut[patterns[k].key] = SignedScalar(parseFloat(ScalarMatch(pText, patterns[k])))
    /\ pText = ExampleText =>
         pOut = [contrast |-> Lit(3, 10), saturation |-> 0 - Lit(2, 10)]

HasDigit(chars) == \E i \in 1..Len(chars) : chars[i] \in Digits

\* The field a keyword of the input texts labels.
LabelOf(word) ==
  patterns[CHOOSE k \in 1..Len(patterns) : LitEnd(word, 1, patterns[k].word) # 0].key

\* C12: parseAIResponse returns only the fields whose labelled pattern
\* matched: a scalar with no labelled number and an RGB field without three
\* numbers are absent, and a text that matches no pattern yields the empty
\* object.
C12_OnlyMatchedFields ==
  pDone =>
    /\ DOMAIN pOut = {patterns[k].key : k \in ScalarKeys(pText)}
                       \cup {rgbPatterns[k].key : k \in RgbKeys(pText)}
    /\ pText \in OtherTexts => DOMAIN pOut = {}
    /\ \A w \in Keywords, sep \in Separators, n \in NumberTexts :
         pText = Clause(w, sep, n) =>
           DOMAIN pOut = IF HasDigit(n) THEN {LabelOf(w)} ELSE {}

C12_Witness ==
  /\ pDone /\ DOMAIN pOut = {}
  /\ pText = <<"l", "i", "f", "t", ":", " ", "0", ".", "1", ",", " ", "0", ".", "2">>

InSignedUnit(x) == ~IsNaN(x) /\ 0 - One <= x /\ x <= One

\* C13: for every text parseAIResponse returns a partial parameter set in
\* which every scalar and every RGB channel is a number in [-1,1], none NaN,
\* also when a matched token is no number and when a magnitude exceeds 100.
C13_ExtractedInRange ==
  pDone =>
    \A key \in DOMAIN pOut :
      IF key \in ScalarFields THEN InSignedUnit(pOut[key])
      ELSE key \in WheelFields /\ \A ch \in {"r", "g", "b"} : InSignedUnit(pOut[key][ch])

C13_Witness ==
  /\ pDone
  /\ pText = <<"g", "a", "i", "n", ":", " ", "(", "-", "2", "5", "0", ",", " ",
               "3", "0", ",", " ", "0", ".", "1", ")">>
  /\ pOut.gain.r = 0 - One /\ pOut.gain.g = Lit(3, 10)

\* --------------------------------------------------- claims: the analyzer

\* C8 as stated: for every ImageAnalysis the analyzer produces, the image of
\* black pixels included, the six scalars and the nine lift/gamma/gain
\* channels analysisToLUTParams returns are numbers in [-1,1], none NaN.
C8_ParamsInRange ==
  aPhase = "converted" =>
    /\ \A f \in ScalarFields : InSignedUnit(aParams[f])
    /\ \A w \in WheelFields, ch \in Channels : InSignedUnit(aParams[w][ch])

\* ---------------------------------------------- claims: repeated calls

EightLevels == {FDiv(FromInt(i), FromInt(8)) : i \in 0..7}

\* C14 as stated: every dominant colour analyzeImageData returns has each
\* channel on one of 8 levels, for every channel byte 0..255, 255 included.
C14_EightLevels ==
  aPhase = "analyzed" =>
    \A k \in 1..Len(aAnalysis.dominantColors) :
      \A ch \in {"r", "g", "b"} : aAnalysis.dominantColors[k][ch] \in EightLevels

\* An image whose pixels all have the colour of its first pixel.
Uniform(image) == \A n \in 1..Len(image) : image[n] = image[1]

\* The channels, the HSL saturation and the temperature ratio of one colour.
ColourOf(p) == RGB(Byte(p.r), Byte(p.g), Byte(p.b))
TemperatureRatio(r, b) == FDiv(FSub(r, b), Max3(r, b, Lit(1, 100)))

UniformTol(image) == Len(image) * Ulp

SolidRed(image) == Uniform(image) /\ image[1] = Pixel(255, 0, 0)

AllBlack(image) == \A n \in 1..Len(image) : image[n] = Pixel(0, 0, 0)

\* C16: the temperature analyzeImageData returns for a non-empty image is a
\* number (no 0/0), lies in [-1,1], and is 0 for an image of black pixels.
C16_TemperatureFinite ==
  aPhase # "idle" =>
    /\ ~IsNaN(aAnalysis.temperature)
    /\ 0 - One <= aAnalysis.temperature /\ aAnalysis.temperature <= One
    /\ AllBlack(aImage) => aAnalysis.temperature = Zero

\* C16 witness: a black image of more than one pixel has been analysed and
\* its temperature is 0.
C16_Witness ==
  /\ aPhase = "analyzed" /\ AllBlack(aImage) /\ Len(aImage) > 1
  /\ aAnalysis.temperature = Zero

\* The quantized colour of every pixel, in pixel order.
QuantOf(p) == RGB(quantize(Byte(p.r)), quantize(Byte(p.g)), quantize(Byte(p.b)))
QuantsOf(image) == Tabulate({<<n, QuantOf(image[n])>> : n \in 1..Len(image)}, Len(image))

\* The number of pixels whose quantized colour is that of c, and the number
\* of quantized colours.
ColourOnly(c) == RGB(c.r, c.g, c.b)
PixelsLike(qs, c) == Cardinality({n \in 1..Len(qs) : qs[n] = ColourOnly(c)})
BucketsIn(qs) == Cardinality({qs[n] : n \in 1..Len(qs)})

\* The exact sum of the first n percentages.
RECURSIVE PercentSum(_, _)
PercentSum(colours, n) ==
  IF n = 0 THEN 0 ELSE PercentSum(colours, n - 1) + colours[n].percentage

\* The dominant colours are at most five distinct buckets, the five most
\* populated ones (all of them when there are fewer), most populated first.
TopBuckets(qs, colours) ==
  /\ Len(colours) <= 5
  /\ Len(colours) = (IF BucketsIn(qs) < 5 THEN BucketsIn(qs) ELSE 5)
  /\ \A j, k \in 1..Len(colours) :
       j < k => /\ ColourOnly(colours[j]) # ColourOnly(colours[k])
                /\ PixelsLike(qs, colours[j]) >= PixelsLike(qs, colours[k])
  /\ \A n \in 1..Len(qs) :
       (\A k \in 1..Len(colours) : qs[n] # ColourOnly(colours[k])) =>
         PixelsLike(qs, colours[Len(colours)]) >= PixelsLike(qs, qs[n])

\* Each percentage is the number 100 x count / pixelCount, and their sum
\* is at most 100.
PercentagesExact(qs, colours) ==
  /\ \A k \in 1..Len(colours) :
       colours[k].percentage = RoundQ(100 * PixelsLike(qs, colours[k]) * Scale, Len(qs))
  /\ PercentSum(colours, Len(colours)) <= 100 * Scale

\* One unit in the last place of a number between 64 and 128.
PercentTol == 128 * Ulp

\* Each percentage is within one unit in the last place of 100 x count /
\* pixelCount, their sum is at most 100 plus that rounding, and a single
\* bucket has exactly 100.
PercentagesRounded(qs, colours) ==
  /\ \A k \in 1..Len(colours) :
       Abs(colours[k].percentage * Len(qs) - 100 * PixelsLike(qs, colours[k]) * Scale)
         <= Len(qs) * PercentTol
  /\ PercentSum(colours, Len(colours)) <= 100 * Scale + Len(colours) * PercentTol
  /\ BucketsIn(qs) = 1 => colours[1].percentage = FromInt(100)

BandLow == Lit(4, 10)
BandHigh == Lit(6, 10)

\* C18: analysisToLUTParams gives shadows = 0 whenever brightness >= 0.4
\* and highlights = 0 whenever brightness <= 0.6; shadows is never positive
\* and highlights never negative; at most one of the two is non-zero; and a
\* brightness below 0.4 (above 0.6) by two or more of the smallest steps
\* gives a negative shadows (a positive highlights).
C18_NeutralBand ==
  aPhase = "converted" =>
    /\ aAnalysis.brightness >= BandLow => aParams.shadows = Zero
    /\ aAnalysis.brightness <= BandHigh => aParams.highlights = Zero
    /\ aParams.shadows <= Zero /\ ~IsNaN(aParams.shadows)
    /\ aParams.highlights >= Zero
    /\ aParams.shadows = Zero \/ aParams.highlights = Zero
    /\ (~IsNaN(aAnalysis.brightness) /\ aAnalysis.brightness + 2 <= BandLow)
         => aParams.shadows < Zero
    /\ aAnalysis.brightness >= BandHigh + 2 => aParams.highlights > Zero

\* C18 witness: a converted analysis whose brightness lies inside the band,
\* between 0.4 and 0.5, with both parameters 0.
C18_Witness ==
  /\ aPhase = "converted"
  /\ aAnalysis.brightness >= BandLow /\ aAnalysis.brightness < Lit(5, 10)
  /\ aParams.shadows = Zero /\ aParams.highlights = Zero

\* saturation(contrast(temperatureTint(shadowsHighlights(liftGammaGain(c)))))
Composition(c, params) ==
  stage5(stage4(stage3(stage2(stage1(c, params), params), params), params), params)

\* C19: the result of transformColor is the composition of its five stages
\* in the order lift/gamma/gain, shadows/highlights, temperature/tint,
\* contrast, saturation, for every input and every parameter set.
C19_FixedOrder == tMode = "standard" => tOut = Composition(tIn, tParams)

\* C19 witness: a call whose result is the composition and differs from
\* what the stages give with saturation run before contrast.
C19_Witness ==
  /\ tMode = "standard"
  /\ tOut = Composition(tIn, tParams)
  /\ tOut # stage4(stage5(stage3(stage2(stage1(tIn, tParams), tParams), tParams), tParams),
                   tParams)

\* 20 x Scale times the value v moved by 0.15 x shadows x (1 - v / 0.5), and
\* by 0.15 x highlights x ((v - 0.5) / 0.5), as exact integers; 0.15 is 3/20.
ShadowMoved(v, shadows) == 20 * Scale * v + 3 * shadows * (Scale - 2 * v)
HighlightMoved(v, highlights) == 20 * Scale * v + 3 * highlights * (2 * v - Scale)
ClampExact(e) ==
  IF e < 0 THEN 0 ELSE IF e > 20 * Scale * Scale THEN 20 * Scale * Scale ELSE e

\* The number o is the exact value e / (20 x Scale), clamped to [0,1], up to
\* one unit in the last place.
NearExact(o, e) == ~IsNaN(o) /\ Abs(20 * Scale * o - ClampExact(e)) <= 20 * Scale * Ulp

\* C20, for one channel value v and its result o.
ShadowsHighlightsChannel(v, o, shadows, highlights) ==
  /\ v < Half => NearExact(o, ShadowMoved(v, shadows))
  /\ v > Half => NearExact(o, HighlightMoved(v, highlights))
  /\ v = Half => o = v
  /\ (v < Half /\ shadows = Zero) => o = v
  /\ (v > Half /\ highlights = Zero) => o = v
  /\ Zero <= o /\ o <= One

\* C20: applyShadowsHighlights moves a channel value v < 0.5 by
\* 0.15 x shadows x (1 - v / 0.5) and a value v > 0.5 by
\* 0.15 x highlights x ((v - 0.5) / 0.5), clamped to [0,1] (up to the
\* rounding of the products); 0.5 is never changed, shadows = 0 leaves every
\* value below 0.5 unchanged and highlights = 0 every value above 0.5.
C20_ShadowsHighlights ==
  (hCall # <<>> /\ hCall.done) =>
    \A ch \in Channels :
      ShadowsHighlightsChannel(hCall.rgb[ch], hCall.out[ch], hCall.shadows, hCall.highlights)

\* C20 witness: a call with both controls non-zero that moved a channel
\* below 0.5 and a channel above 0.5 and left a channel at 0.5 in place.
C20_Witness ==
  /\ hCall # <<>> /\ hCall.done
  /\ hCall.shadows # Zero /\ hCall.highlights # Zero
  /\ hCall.rgb.r < Half /\ hCall.out.r # hCall.rgb.r
  /\ hCall.rgb.b > Half /\ hCall.out.b # hCall.rgb.b
  /\ hCall.rgb.g = Half /\ hCall.out.g = Half

\* The number o is the exact value e / k, clamped to [0,1], up to one unit
\* in the last place.
NearScaled(o, e, k) ==
  /\ ~IsNaN(o)
  /\ Abs(k * o - (IF e < 0 THEN 0 ELSE IF e > k * Scale THEN k * Scale ELSE e)) <= k * Ulp

TemperatureDone == sCall # <<>> /\ sCall.stage = "temperature" /\ sCall.done

\* C21: applyTemperature returns red = clamp(r + 0.1 x temperature), blue =
\* clamp(b - 0.1 x temperature) and green = clamp(g - 0.05 x tint), up to the
\* rounding of the products and exactly when the control is 0; green is the
\* green of the same call with temperature 0, and red and blue are those of
\* the same call with tint 0.
C21_TemperatureTint ==
  TemperatureDone =>
    /\ NearScaled(sCall.out.r, 10 * sCall.rgb.r + sCall.temp, 10)
    /\ NearScaled(sCall.out.b, 10 * sCall.rgb.b - sCall.temp, 10)
    /\ NearScaled(sCall.out.g, 20 * sCall.rgb.g - sCall.tint, 20)
    /\ sCall.temp = Zero => (sCall.out.r = sCall.rgb.r /\ sCall.out.b = sCall.rgb.b)
    /\ sCall.tint = Zero => sCall.out.g = sCall.rgb.g
    /\ sCall.out.g = applyTemperature(sCall.rgb.r, sCall.rgb.g, sCall.rgb.b, Zero, sCall.tint).g
    /\ sCall.out.r = applyTemperature(sCall.rgb.r, sCall.rgb.g, sCall.rgb.b, sCall.temp, Zero).r
    /\ sCall.out.b = applyTemperature(sCall.rgb.r, sCall.rgb.g, sCall.rgb.b, sCall.temp, Zero).b

\* C21 witness: a call with both controls non-zero that moved all three
\* channels, none of them into the clamp.
C21_Witness ==
  /\ TemperatureDone /\ sCall.temp # Zero /\ sCall.tint # Zero
  /\ \A ch \in Channels :
       sCall.out[ch] # sCall.rgb[ch] /\ sCall.out[ch] > Zero /\ sCall.out[ch] < One

ContrastDone == sCall # <<>> /\ sCall.stage = "contrast" /\ sCall.done

\* C22: for every contrast in [-1,1] the denominator 1 - 0.99 x contrast of
\* applyContrast is above 0 and its factor is a number, not negative (0 at
\* contrast -1, 1 at contrast 0); each of the three channels is
\* clamp((v - 0.5) x factor + 0.5) with that one factor, lies in [0,1] on
\* the side of 0.5 where v lies, and the value 0.5 is returned unchanged.
C22_ContrastFactor ==
  ContrastDone =>
    /\ ~IsNaN(sCall.denominator) /\ sCall.denominator > Zero
    /\ ~IsNaN(sCall.factor) /\ sCall.factor >= Zero
    /\ sCall.contrast = 0 - One => sCall.factor = Zero
    /\ sCall.contrast = Zero => sCall.factor = One
    /\ sCall.contrast > Zero => sCall.factor > One
    /\ \A ch \in Channels :
         /\ sCall.out[ch] =
              clamp(FAdd(FMul(FSub(sCall.rgb[ch], Half), sCall.factor), Half))
         /\ Zero <= sCall.out[ch] /\ sCall.out[ch] <= One
         /\ sCall.rgb[ch] = Half => sCall.out[ch] = Half
         /\ sCall.rgb[ch] > Half => sCall.out[ch] >= Half
         /\ sCall.rgb[ch] < Half => sCall.out[ch] <= Half
         /\ \A other \in Channels :
              sCall.rgb[other] = sCall.rgb[ch] => sCall.out[other] = sCall.out[ch]

\* C22 witness: a call at the end contrast = 1 of the domain, where the
\* denominator is smallest, with a channel at the pivot 0.5 left in place and
\* another channel moved.
C22_Witness ==
  /\ ContrastDone /\ sCall.contrast = One
  /\ sCall.denominator > Zero /\ sCall.denominator < Lit(2, 100)
  /\ sCall.rgb.r = Half /\ sCall.out.r = Half
  /\ sCall.out.g # sCall.rgb.g

BothAnalysed == oRun # <<>> /\ oRun.phase = "both"

\* C23, as stated: the analysis of a reordering of the pixels of an image is
\* the analysis of the image, field by field, the dominant-colour list
\* included.
C23_OrderIndependent == BothAnalysed => oRun.first = oRun.second

\* No two buckets of the image hold the same number of pixels.
NoTies(qs) ==
  \A m, n \in 1..Len(qs) : qs[m] # qs[n] => PixelsLike(qs, qs[m]) # PixelsLike(qs, qs[n])

PercentagesOf(colours) == [k \in 1..Len(colours) |-> colours[k].percentage]

\* C23, amended: the analysis of a reordering of the pixels has the same
\* histograms, the same contrast and the same sequence of dominant-colour
\* percentages; its average colour, brightness, saturation and temperature
\* agree up to the rounding of the running totals; and its dominant-colour
\* list is the same when no two buckets tie in count.
C23_OrderUpToRoundingAndTies ==
  BothAnalysed =>
    /\ oRun.first.histogram = oRun.second.histogram
    /\ oRun.first.contrast = oRun.second.contrast
    /\ PercentagesOf(oRun.first.dominantColors) = PercentagesOf(oRun.second.dominantColors)
    /\ \A ch \in Channels :
         Within(oRun.first.averageColor[ch], oRun.second.averageColor[ch],
                UniformTol(oRun.image))
    /\ Within(oRun.first.brightness, oRun.second.brightness, UniformTol(oRun.image))
    /\ Within(oRun.first.saturation, oRun.second.saturation, UniformTol(oRun.image))
    /\ Within(oRun.first.temperature, oRun.second.temperature, 2 * UniformTol(oRun.image))
    /\ NoTies(QuantsOf(oRun.image)) =>
         oRun.first.dominantColors = oRun.second.dominantColors

\* C23 witness: an image analysed in two different pixel orders, with no tie
\* between its two buckets.
C23_Witness ==
  /\ BothAnalysed /\ oRun.image # oRun.other
  /\ BucketsIn(QuantsOf(oRun.image)) = 2 /\ NoTies(QuantsOf(oRun.image))
  /\ oRun.first.dominantColors = oRun.second.dominantColors

AllFields == ScalarFields \cup WheelFields
MergeOps == {"generateLUTFromDescription", "POST", "updateManualParam"}

\* defaultParams and the presets hold the values they were loaded with.
LoadedUnchanged == \A ref \in 1..Len(LoadedObjects) : mem.objs[ref] = LoadedObjects[ref]

\* The object the i-th operation built is new, and has the fields of the
\* partial where the partial has them.
BuiltNew(i) ==
  /\ mem.ops[i].made > Len(LoadedObjects)
  /\ \A j \in 1..(i - 1) : mem.ops[j].made # mem.ops[i].made
  /\ DOMAIN mem.objs[mem.ops[i].made] = AllFields
  /\ \A f \in DOMAIN mem.ops[i].partial :
       mem.objs[mem.ops[i].made][f] = mem.ops[i].partial[f]

\* C24, as stated: every merge, updateManualParam included, builds a new
\* object in which each field absent from the partial has its default 0,
\* and defaultParams and the presets keep their initial values.
C24_AbsentFieldsDefault ==
  mem # <<>> =>
    /\ LoadedUnchanged
    /\ \A i \in 1..Len(mem.ops) :
         mem.ops[i].op \in MergeOps =>
           /\ BuiltNew(i)
           /\ \A f \in AllFields \ DOMAIN mem.ops[i].partial :
                mem.objs[mem.ops[i].made][f] = defaultParams[f]

\* C24, amended: every merge builds a new object; in those of
\* generateLUTFromDescription and of the route handler each field absent
\* from the partial has its default 0, in that of updateManualParam it has
\* the value of the previous manualParams; and defaultParams and the
\* presets keep their initial values.
C24_MergeNeverMutates ==
  mem # <<>> =>
    /\ LoadedUnchanged
    /\ \A i \in 1..Len(mem.ops) :
         mem.ops[i].op \in MergeOps =>
           /\ BuiltNew(i)
           /\ \A f \in AllFields \ DOMAIN mem.ops[i].partial :
                mem.objs[mem.ops[i].made][f] =
                  (IF mem.ops[i].op = "updateManualParam"
                   THEN mem.objs[mem.ops[i].base][f]
                   ELSE defaultParams[f])

\* C24 witness: two edits of the manual controls and then a merge of a
\* one-field partial onto the defaults.
C24_Witness ==
  /\ mem # <<>> /\ Len(mem.ops) = 3
  /\ mem.ops[1].op = "updateManualParam" /\ mem.ops[2].op = "updateManualParam"
  /\ mem.ops[1].partial # mem.ops[2].partial
  /\ mem.ops[3].op = "POST" /\ mem.ops[3].partial = [contrast |-> Pct(30)]
  /\ mem.objs[mem.ops[3].made].saturation = Zero

\* Two files have been uploaded and all their callbacks have run.
UploadsSettled ==
  /\ up # <<>> /\ Len(up.files) = MaxUploads
  /\ \A n \in 1..Len(up.files) : up.stage[n] = "done"

\* C25: once the callbacks of two uploads have all run, in whatever order,
\* the image shown and the analysis stored are those of the file uploaded
\* last.
C25_LastUploadWins ==
  UploadsSettled =>
    /\ up.uploadedImage = up.files[Len(up.files)]
    /\ up.imageAnalysis = analyzeImageData(up.files[Len(up.files)])

\* The keywords of the eight presets in the order the fallback tests them;
\* black-and-white needs both of its words, the others any one.
FallbackKeywords ==
  << [preset |-> "cinematic-orange-teal", words |-> {"cinematic", "teal", "orange"}, all |-> FALSE],
     [preset |-> "vintage-film", words |-> {"vintage", "film", "retro"}, all |-> FALSE],
     [preset |-> "black-and-white", words |-> {"black", "white"}, all |-> TRUE],
     [preset |-> "high-contrast", words |-> {"high contrast", "dramatic"}, all |-> FALSE],
     [preset |-> "muted-pastel", words |-> {"muted", "pastel", "soft"}, all |-> FALSE],
     [preset |-> "warm-golden", words |-> {"warm", "golden", "sunset"}, all |-> FALSE],
     [preset |-> "cool-blue", words |-> {"cool", "blue", "cold"}, all |-> FALSE],
     [preset |-> "vibrant-pop", words |-> {"vibrant", "pop", "saturated"}, all |-> FALSE] >>
KeywordsMatch(k, text) ==
  IF FallbackKeywords[k].all
  THEN \A w \in FallbackKeywords[k].words : includes(text, w)
  ELSE \E w \in FallbackKeywords[k].words : includes(text, w)
FirstMatchParams(text) ==
  IF \E k \in 1..Len(FallbackKeywords) : KeywordsMatch(k, text)
  THEN PresetNamed(FallbackKeywords[
         CHOOSE k \in 1..Len(FallbackKeywords) :
           KeywordsMatch(k, text) /\ \A j \in 1..(k - 1) : ~KeywordsMatch(j, text)].preset)
  ELSE defaultParams

\* A handled request with no API key configured, a non-empty prompt, no
\* manualParams and no known preset.
FallbackCase ==
  /\ post # <<>> /\ post.done /\ ~post.apiKey
  /\ Field(post.request, "prompt") # ""
  /\ "manualParams" \notin DOMAIN post.request
  /\ ~OwnPreset(Field(post.request, "preset"))

\* C26: with no API key, a non-empty prompt, no manualParams and no known
\* preset the handler never calls the language model and answers success
\* with a LUT built from the first preset, in the fixed order, whose
\* keywords occur in the lower-cased prompt, or from the neutral defaults
\* when none do.
C26_PresetFallback ==
  FallbackCase =>
    /\ ~post.response.calledModel
    /\ post.response.success
    /\ post.response.lut.params = FirstMatchParams(toLowerCase(post.request.prompt))

\* A channel value inside the legal range of limited-range video.
InLegalRange(v) == v # NaN /\ limitedLow <= v /\ v <= limitedHigh

\* C27: every output channel of transformColorHEVC lies in the legal range
\* [0.0627, 0.9216], for every input sample and every valid parameter set:
\* nothing is emitted in the footroom or the headroom.
C27_OutputInLegalRange ==
  tMode = "hevc" =>
    InLegalRange(tOut.r) /\ InLegalRange(tOut.g) /\ InLegalRange(tOut.b)

\* A graded HEVC output with one channel at the bottom and one at the top
\* of the legal range.
C27_Witness ==
  /\ tMode = "hevc" /\ tParams # defaultParams
  /\ \E ch \in {"r", "g", "b"} : tOut[ch] = limitedLow
  /\ \E ch \in {"r", "g", "b"} : tOut[ch] = limitedHigh

\* C28: the two adjustments never compound on one channel: a value below
\* 0.5 is still below 0.5 after the shadows adjustment, whatever shadows
\* is, and is returned as adjusted, so the highlights adjustment changes
\* only values that were above 0.5 on entry.
C28_NoCompounding ==
  (hCall # <<>> /\ hCall.done) =>
    \A ch \in {"r", "g", "b"} :
      /\ hCall.rgb[ch] < Half =>
            hCall.mid[ch] < Half /\ hCall.out[ch] = hCall.mid[ch]
      /\ hCall.out[ch] # hCall.mid[ch] => hCall.rgb[ch] > Half

\* Both controls at full strength: the value just below 0.5 is raised by
\* the shadows and stays below 0.5, a value above 0.5 is raised by the
\* highlights only.
C28_Witness ==
  /\ hCall # <<>> /\ hCall.done
  /\ hCall.shadows = One /\ hCall.highlights = One
  /\ hCall.rgb.r = Half - Ulp /\ hCall.mid.r > hCall.rgb.r /\ hCall.mid.r < Half
  /\ hCall.out.r = hCall.mid.r
  /\ hCall.rgb.g > Half /\ hCall.mid.g = hCall.rgb.g /\ hCall.out.g > hCall.mid.g

\* transformColor has run with contrast = -1.
FlatContrast == tMode = "standard" /\ tParams.contrast = 0 - One

\* C29: with contrast = -1 the contrast factor is 0 and transformColor
\* returns (0.5, 0.5, 0.5) for every input sample and every value of the
\* other parameters, saturation included.
C29_FlatGreyExact ==
  FlatContrast =>
    /\ contrastFactor(tParams.contrast) = Zero
    /\ tOut = RGB(Half, Half, Half)

\* C29 as the code has it: the contrast factor is 0 and every channel
\* returned is 0.5 up to the rounding of the luminance sum of the
\* saturation stage.
C29_FlatGreyUpToRounding ==
  FlatContrast =>
    /\ contrastFactor(tParams.contrast) = Zero
    /\ \A ch \in {"r", "g", "b"} :
         /\ tOut[ch] # NaN
         /\ tOut[ch] - Half <= Ulp /\ Half - tOut[ch] <= Ulp

\* A sample of three different channels with contrast and saturation at -1:
\* the three channels returned are equal, next to 0.5 and not 0.5.
C29_Witness ==
  /\ FlatContrast /\ tParams.saturation = 0 - One
  /\ tIn.r # tIn.g /\ tIn.g # tIn.b
  /\ tOut.r = tOut.g /\ tOut.g = tOut.b
  /\ tOut.r # Half

\* Exactly one of result and error is set.
ExactlyOneSet == (gen.result # Null) # (gen.error # Null)

\* C30: generateLUT sets isGenerating and clears result and error at its
\* start, and every generation, in whichever mode and whether it succeeds,
\* throws or is refused by the server, eventually ends with isGenerating
\* false and exactly one of result and error set.
C30_GenerationCycle ==
  /\ [][ClickGenerate => gen'.isGenerating /\ gen'.result = Null /\ gen'.error = Null]_vars
  /\ [](gen.pc = "try" => gen.isGenerating /\ gen.result = Null /\ gen.error = Null)
  /\ (gen.isGenerating ~> (~gen.isGenerating /\ ExactlyOneSet))
  /\ []((gen.pc = "idle" /\ gen.closure # Null) => (~gen.isGenerating /\ ExactlyOneSet))

\* An AI generation that the server refused has ended: the error is shown,
\* no result, and the button is free again.
C30_Witness ==
  /\ gen # <<>> /\ gen.pc = "idle" /\ gen.closure # Null
  /\ gen.closure[1].mode = "ai"
  /\ ~gen.isGenerating /\ gen.result = Null
  /\ gen.error = Value("No prompt, preset, or parameters provided")

====
